---- MODULE Spec2Model ----
(***************************************************************************)
(* Roster synchronisation, inbound STOP/START handling and outbound SMS    *)
(* sending of the Google-Sheets / Twilio automation.                       *)
(*                                                                         *)
(* Sheets are sequences of row records, script and user properties are     *)
(* records, the SMS vendor is an external collaborator whose answer to     *)
(* each request is chosen nondeterministically.  Phone numbers are         *)
(* sequences of one-character strings so that digit stripping and the      *)
(* country-digit rules are computed; other text cells are strings of a     *)
(* small alphabet on which trim / case conversion are given by table.      *)
(***************************************************************************)
EXTENDS Integers, Sequences, FiniteSets, TLC

VARIABLES
  roster,       \* "Student Database" data rows (row i is sheet row i+1)
  responses,    \* form response rows, with their Processed flag
  attendance,   \* "Attendance" data rows
  smsLog,       \* "SMS Log" sheet: header kind and data rows
  props,        \* script properties
  config,       \* the global CONFIG object as smsBulkSend.js sees it
  headerRow,    \* "Student Database" header row, left to right
  userProps,    \* user properties of the caller (passcode session)
  now,          \* Date.now(), in milliseconds
  sync,         \* position of a running syncStudentDatabase pass
  http,         \* requests issued to the vendor by the latest step
  ret,          \* the latest step: operation, arguments and result
  stopped       \* history: phones whose latest consent signal is an inbound STOP

vars == <<roster, responses, attendance, smsLog, props, config, headerRow, userProps,
          now, sync, http, ret, stopped>>

-----------------------------------------------------------------------------
(* Bounds of the model *)

MaxRoster == 3      \* roster rows
MaxResponses == 2   \* form response rows
MaxSent == 2        \* SMS Log rows written by the send paths
MaxRetried == 3     \* SMS Log rows once resendFailures_ has added its own
MaxInbound == 4     \* SMS Log rows written by the webhook
MaxTicks == 1       \* clock advances
BATCH_SIZE == 2     \* BULK_SMS_CONFIG.BATCH_SIZE, scaled down from 50

(* Program constants *)

SESSION_TTL_MS == 43200000   \* 12 * 60 * 60 * 1000
TICK_MS == SESSION_TTL_MS    \* the clock advances in steps of one session lifetime
OPT_OUT_CODE == 21610

-----------------------------------------------------------------------------
(* Text helpers *)

Digits == {"0", "1", "2", "3", "4", "5", "6", "7", "8", "9"}

\* s.replace(/[^\d]/g, '')
RECURSIVE StripNonDigits(_)
StripNonDigits(s) ==
  IF s = <<>> THEN <<>>
  ELSE IF Head(s) \in Digits THEN <<Head(s)>> \o StripNonDigits(Tail(s))
       ELSE StripNonDigits(Tail(s))

\* String.prototype.trim on the cells of the model
Trim(s) ==
  CASE s = " a@x.edu " -> "a@x.edu"
    [] s = " stop "    -> "stop"
    [] s = " E1 "      -> "E1"
    [] s = " "         -> ""
    [] s = "send status " -> "send status"
    [] OTHER           -> s

\* String.prototype.toLowerCase on the cells of the model
ToLowerCase(s) ==
  CASE s = "A@X.EDU" -> "a@x.edu"
    [] s = "Yes"     -> "yes"
    [] s = "YES"     -> "yes"
    [] s = "No"      -> "no"
    [] s = "NO"      -> "no"
    [] s = "E1"      -> "e1"
    [] s = "TRUE"    -> "true"
    [] s = "Join Date"       -> "join date"
    [] s = "Student Name"    -> "student name"
    [] s = "Email"           -> "email"
    [] s = "Campus Email"    -> "campus email"
    [] s = "Phone #"         -> "phone #"
    [] s = "SMS Opt-In"      -> "sms opt-in"
    [] s = "Message"         -> "message"
    [] s = "Last Sent At"    -> "last sent at"
    [] s = "Last Error Code" -> "last error code"
    [] s = "Last Error"      -> "last error"
    [] s = "Send Status"     -> "send status"
    [] s = "Send Status "    -> "send status "
    [] s = "Phone"           -> "phone"
    [] OTHER         -> s

\* String.prototype.toUpperCase on the cells of the model
ToUpperCase(s) ==
  CASE s = "stop"        -> "STOP"
    [] s = "Stop"        -> "STOP"
    [] s = "start"       -> "START"
    [] s = "unsubscribe" -> "UNSUBSCRIBE"
    [] s = "ping"        -> "PING"
    [] s = "stop please" -> "STOP PLEASE"
    [] s = "yes"         -> "YES"
    [] s = "Yes"         -> "YES"
    [] s = "No"          -> "NO"
    [] s = "no"          -> "NO"
    [] s = "true"        -> "TRUE"
    [] s = "hello"       -> "HELLO"
    [] OTHER             -> s

Max(S) == CHOOSE x \in S : \A y \in S : y <= x

-----------------------------------------------------------------------------
(* Phone normalizers *)

\* a toE164_ without the ten-digit rule: the country digit is added only to a
\* number that does not start with 1
toE164_NoLengthRule(digits) ==
  LET d0 == StripNonDigits(digits)
  IN <<"+">> \o (IF d0 = <<>> \/ Head(d0) # "1" THEN <<"1">> \o d0 ELSE d0)

toE164_(digits) ==
  LET d0 == StripNonDigits(digits)
      d1 == IF Len(d0) = 10 THEN <<"1">> \o d0 ELSE d0
      d2 == IF d1 = <<>> \/ Head(d1) # "1" THEN <<"1">> \o d1 ELSE d1
  IN <<"+">> \o d2

\* a normalizePhoneDigits_ that keeps the leading 1 of an 11-digit number
normalizePhoneDigits_KeepLead(v) == StripNonDigits(v)

normalizePhoneDigits_(v) ==
  LET d == StripNonDigits(v)
  IN IF Len(d) = 11 /\ Head(d) = "1" THEN Tail(d) ELSE d

-----------------------------------------------------------------------------
(* Cells, rows and the values the environment supplies *)

PA == <<"8", "1", "6", "5", "5", "5", "0", "1", "0", "1">>
PB == <<"4", "0", "4", "5", "5", "5", "0", "1", "0", "2">>
PA_E164 == <<"+", "1">> \o PA
PA_FORMATTED == <<"1", " ", "(", "8", "1", "6", ")", " ", "5", "5", "5", "-", "0", "1", "0", "1">>

WelcomeBody == <<"Thanks for opting in to Progsu SMS alerts! Cool events are coming your way. Reply STOP to opt out. Reply HELP for help.">>

DAY_MS == 24 * 60 * 60 * 1000

\* Utilities.formatDate(new Date(), tz, 'M/d/yyyy')
FormatDate(t) == IF t \div DAY_MS = 0 THEN "1/1/2026" ELSE "1/2/2026"

\* An error code cell: a number of the vendor or a symbolic code of the script
Code(n) == [num |-> n, sym |-> ""]
Sym(name) == [num |-> 0, sym |-> name]
NoCode == [num |-> 0, sym |-> ""]

\* the header row of the roster sheet: the columns of the sync script, then
\* the tracking columns of the bulk sender
BaseHeader ==
  <<"Join Date", "Student Name", "Email", "Campus Email", "Phone #", "SMS Opt-In">>
TrackingHeader == <<"Last Sent At", "Last Error Code", "Last Error", "Send Status">>
FullHeader == BaseHeader \o TrackingHeader

\* A roster row with every header blank (newObj before the overlay)
BlankRow ==
  [JoinDate |-> "", StudentName |-> "", Email |-> "", CampusEmail |-> "",
   Phone |-> <<>>, OptIn |-> "", LastSentAt |-> <<>>, LastErrorCode |-> NoCode,
   LastError |-> "", SendStatus |-> ""]

\* Only the phone cell holds a character sequence
IsBlank(field, v) == IF field = "Phone" THEN v = <<>> ELSE v = ""

-----------------------------------------------------------------------------
(* syncStudentDatabase and its helpers *)

normalizeFieldValue_(dbKey, value) ==
  IF IsBlank(dbKey, value) THEN (IF dbKey = "Phone" THEN <<>> ELSE "")
  ELSE CASE dbKey \in {"Email", "CampusEmail"} -> ToLowerCase(Trim(value))
         [] dbKey = "Phone" ->
              LET v == StripNonDigits(value)
              IN IF Len(v) = 11 /\ Head(v) = "1" THEN Tail(v) ELSE v
         [] dbKey = "OptIn" -> "Yes"
         [] OTHER -> value

\* the value of the first alias header holding a non-blank cell, trimmed
getValueByHeader_(row, field) ==
  IF field = "Phone" THEN row[field] ELSE Trim(row[field])

\* fields of CONFIG.fieldAliases, with the response column each is read from
AliasOf ==
  [JoinDate |-> "Timestamp", StudentName |-> "Name", Email |-> "Email",
   CampusEmail |-> "CampusEmail", Phone |-> "Phone", OptIn |-> "OptIn"]

BuildIncoming(row) ==
  [dbKey \in DOMAIN AliasOf |->
     normalizeFieldValue_(dbKey, getValueByHeader_(row, AliasOf[dbKey]))]

matchKeys == <<"CampusEmail", "Email", "Phone">>

NonEmptyKey(field, v) ==
  IF field = "Phone" THEN v # <<>> ELSE Trim(v) # ""

\* first key of the priority list with a non-empty value, "" for null
inferMatchKey_(obj) ==
  LET hit == {i \in 1..Len(matchKeys) : NonEmptyKey(matchKeys[i], obj[matchKeys[i]])}
  IN IF hit = {} THEN ""
     ELSE matchKeys[CHOOSE i \in hit : \A j \in hit : i <= j]

\* firstNonEmpty_ over the three key cells c, e, p; the result is tagged with
\* the position it came from, 0 when all are empty
firstNonEmpty_(c, e, p) ==
  IF Trim(c) # "" THEN [at |-> 1, v |-> c]
  ELSE IF Trim(e) # "" THEN [at |-> 2, v |-> e]
  ELSE IF p # <<>> THEN [at |-> 3, v |-> p]
  ELSE [at |-> 0, v |-> ""]

makeIndexKey_(keyName, keyVal) ==
  [name |-> keyName,
   val  |-> IF keyVal.at = 3 THEN keyVal.v ELSE ToLowerCase(keyVal.v),
   at   |-> keyVal.at]

SameKey(k1, k2) == k1.name = k2.name /\ k1.at = k2.at /\ k1.val = k2.val

\* the index key buildIndex_ files a roster row under, name "" when none
RowIndexKey(obj) ==
  LET keyName == inferMatchKey_(obj)
      keyVal == firstNonEmpty_(obj.CampusEmail, obj.Email,
                               normalizeFieldValue_("Phone", obj.Phone))
  IN IF keyName # "" /\ keyVal.at # 0 THEN makeIndexKey_(keyName, keyVal)
     ELSE [name |-> "", val |-> "", at |-> 0]

\* dbIndex.get(idxKey): the last row filed under the key, 0 for undefined
buildIndex_(rows, idxKey) ==
  LET hit == {i \in 1..Len(rows) :
                 RowIndexKey(rows[i]).name # "" /\ SameKey(RowIndexKey(rows[i]), idxKey)}
  IN IF hit = {} THEN 0 ELSE Max(hit)

\* a merge in which the later value wins for every field, Join Date included
mergeRecords_LaterWins(existing, incoming) ==
  [k \in DOMAIN existing |->
     IF k \in DOMAIN incoming /\ ~IsBlank(k, incoming[k])
     THEN incoming[k] ELSE existing[k]]

mergeRecords_(existing, incoming) ==
  [k \in DOMAIN existing |->
     IF k \in DOMAIN incoming /\ k # "JoinDate" /\ ~IsBlank(k, incoming[k])
     THEN incoming[k] ELSE existing[k]]

\* a dedupe scan that compares the stored campus email as it is written
hasAttendance_ExactCase(sheet, eventId, campusEmailLower) ==
  IF eventId = "" \/ campusEmailLower = "" THEN FALSE
  ELSE \E i \in 1..Len(sheet) :
         /\ Trim(sheet[i].EventID) = eventId
         /\ sheet[i].CampusEmail = campusEmailLower

hasAttendance_(sheet, eventId, campusEmailLower) ==
  IF eventId = "" \/ campusEmailLower = "" THEN FALSE
  ELSE \E i \in 1..Len(sheet) :
         /\ Trim(sheet[i].EventID) = eventId
         /\ ToLowerCase(Trim(sheet[i].CampusEmail)) = campusEmailLower

-----------------------------------------------------------------------------
(* The vendor and the low-level send of sms.js *)

\* what the vendor may answer to one request
Outcomes == {"ok", "r21610", "rejected", "transport", "badjson"}

\* UrlFetchApp.fetch against the Messages endpoint
Vendor(outcome) ==
  CASE outcome = "ok" ->
         [throws |-> FALSE, parses |-> TRUE, code |-> 201,
          sid |-> "SM1", jcode |-> 0, message |-> ""]
    [] outcome = "r21610" ->
         [throws |-> FALSE, parses |-> TRUE, code |-> 400,
          sid |-> "", jcode |-> OPT_OUT_CODE, message |-> "Attempt to send to unsubscribed recipient"]
    [] outcome = "rejected" ->
         [throws |-> FALSE, parses |-> TRUE, code |-> 400,
          sid |-> "", jcode |-> 21211, message |-> "Invalid 'To' Phone Number"]
    [] outcome = "badjson" ->
         [throws |-> FALSE, parses |-> FALSE, code |-> 502,
          sid |-> "", jcode |-> 0, message |-> ""]
    [] OTHER ->
         [throws |-> TRUE, parses |-> FALSE, code |-> 0,
          sid |-> "", jcode |-> 0, message |-> ""]

twilioProps_ ==
  [sid |-> props.TWILIO_ACCOUNT_SID, token |-> props.TWILIO_AUTH_TOKEN,
   msid |-> props.TWILIO_MESSAGING_SERVICE_SID, from |-> props.TWILIO_FROM_NUMBER]

\* one row of the SMS Log as logSms_ lays it out
OutRow(to, body, sid, httpCode, err) ==
  [kind |-> "OUT", To |-> to, Body |-> body, SID |-> sid, Code |-> httpCode, Error |-> err]

\* logSms_ / logInbound_: the first call on an empty sheet writes its own header
logSms_(log, row) ==
  [header |-> IF log.header = "none" THEN row.kind ELSE log.header,
   rows   |-> Append(log.rows, row)]

\* the sendSms_ of src/unnamed/part_000, which has no try/catch: missing
\* properties, a failed fetch, an unparseable answer and a non-2xx answer all
\* leave the function as an exception
sendSms_Raising(toE164, body, outcome) ==
  LET tp == twilioProps_
      rsp == Vendor(outcome)
      req == [To |-> toE164, Body |-> body, via |-> "sendSms_", row |-> 0,
              outcome |-> outcome]
  IN IF tp.sid = "" \/ tp.token = ""
     THEN [success |-> FALSE, error |-> "Missing Twilio credentials (SID/TOKEN). Add Script Properties.",
           errorCode |-> 0, threw |-> TRUE, rows |-> <<>>, reqs |-> <<>>]
     ELSE IF tp.msid = "" /\ tp.from = ""
     THEN [success |-> FALSE, error |-> "Provide TWILIO_MESSAGING_SERVICE_SID or TWILIO_FROM_NUMBER in Script Properties.",
           errorCode |-> 0, threw |-> TRUE, rows |-> <<>>, reqs |-> <<>>]
     ELSE IF rsp.throws \/ ~rsp.parses
     THEN [success |-> FALSE, error |-> "Exception", errorCode |-> 0, threw |-> TRUE,
           rows |-> <<>>, reqs |-> <<req>>]
     ELSE [success |-> rsp.code >= 200 /\ rsp.code < 300,
           error |-> IF rsp.code >= 200 /\ rsp.code < 300 THEN "" ELSE "Twilio error",
           errorCode |-> IF rsp.code >= 200 /\ rsp.code < 300 THEN 0
                         ELSE IF rsp.jcode # 0 THEN rsp.jcode ELSE rsp.code,
           threw |-> ~(rsp.code >= 200 /\ rsp.code < 300),
           rows |-> <<OutRow(toE164, body, rsp.sid, rsp.code, rsp.message)>>,
           reqs |-> <<req>>]

\* sendSms_(toE164, body) with the vendor answering `outcome`:
\* the result object, the log rows written and the requests issued
sendSms_(toE164, body, outcome) ==
  LET tp == twilioProps_
      rsp == Vendor(outcome)
      req == [To |-> toE164, Body |-> body, via |-> "sendSms_", row |-> 0,
              outcome |-> outcome]
  IN IF tp.sid = "" \/ tp.token = ""
     THEN [success |-> FALSE, error |-> "Missing Twilio credentials (SID/TOKEN). Add Script Properties.",
           errorCode |-> 0, threw |-> FALSE, rows |-> <<>>, reqs |-> <<>>]
     ELSE IF tp.msid = "" /\ tp.from = ""
     THEN [success |-> FALSE, error |-> "Provide TWILIO_MESSAGING_SERVICE_SID or TWILIO_FROM_NUMBER in Script Properties.",
           errorCode |-> 0, threw |-> FALSE, rows |-> <<>>, reqs |-> <<>>]
     ELSE IF rsp.throws \/ ~rsp.parses
     THEN [success |-> FALSE, error |-> "Exception", errorCode |-> 0, threw |-> FALSE,
           rows |-> <<OutRow(toE164, body, "", 0, "Exception")>>, reqs |-> <<req>>]
     ELSE [success |-> rsp.code >= 200 /\ rsp.code < 300,
           error |-> IF rsp.code >= 200 /\ rsp.code < 300 THEN ""
                     ELSE IF rsp.message # "" THEN rsp.message ELSE "Unknown error",
           errorCode |-> IF rsp.code >= 200 /\ rsp.code < 300 THEN 0
                         ELSE IF rsp.jcode # 0 THEN rsp.jcode ELSE rsp.code,
           threw |-> FALSE,
           rows |-> <<OutRow(toE164, body, rsp.sid, rsp.code, rsp.message)>>,
           reqs |-> <<req>>]

\* append the rows of one send to the log
RECURSIVE LogAll(_, _)
LogAll(log, rows) ==
  IF rows = <<>> THEN log ELSE LogAll(logSms_(log, Head(rows)), Tail(rows))

-----------------------------------------------------------------------------
(* Initial sheets and properties *)

RowA(opt) ==
  [BlankRow EXCEPT !.JoinDate = "9/1/2025", !.StudentName = "Ann Lee",
                   !.CampusEmail = "a@x.edu", !.Phone = PA, !.OptIn = opt]
RowB(opt) ==
  [BlankRow EXCEPT !.JoinDate = "9/2/2025", !.StudentName = "Bo",
                   !.CampusEmail = "b@x.edu", !.Phone = PA_E164, !.OptIn = opt]

\* rosters the sheet may hold when the scripts are installed
InitRosters ==
  { <<>>, <<RowA("Yes")>>, <<RowA("No")>>, <<RowA("Yes"), RowB("Yes")>> }

BaseProps ==
  [TWILIO_ACCOUNT_SID |-> "AC1", TWILIO_AUTH_TOKEN |-> "tok",
   TWILIO_MESSAGING_SERVICE_SID |-> "MG1", TWILIO_FROM_NUMBER |-> "",
   SMS_DRY_RUN |-> "", SMS_ADMIN_EMAILS |-> "*", SMS_PANEL_PASS_SHA256 |-> "",
   BULK_SMS_CURSOR |-> 0]

PassProps ==
  [BaseProps EXCEPT !.SMS_ADMIN_EMAILS = "me@x.edu, other@x.edu",
                    !.SMS_PANEL_PASS_SHA256 = "hash1"]

\* script property sets an installation may have
InitProps ==
  { BaseProps,
    [BaseProps EXCEPT !.SMS_DRY_RUN = "TRUE"],
    [BaseProps EXCEPT !.TWILIO_AUTH_TOKEN = ""],
    [BaseProps EXCEPT !.TWILIO_MESSAGING_SERVICE_SID = ""],
    [BaseProps EXCEPT !.SMS_ADMIN_EMAILS = "other@x.edu"],
    PassProps }

\* CONFIG is declared outside smsBulkSend.js: the sync script's CONFIG has no
\* SHEET_NAME ("" stands for undefined); the documented one names a sheet
InitConfigs == { [SHEET_NAME |-> ""], [SHEET_NAME |-> "Student Database"] }

\* rows a Google Form may append to the response sheet
FormRow(ts, name, campus, email, phone, opt, event) ==
  [Timestamp |-> ts, Name |-> name, CampusEmail |-> campus, Email |-> email,
   Phone |-> phone, OptIn |-> opt, EventID |-> event, Processed |-> ""]

FormRows ==
  { FormRow("9/9/2025", "Ann Lee", "a@x.edu", "", PA, "Yes, text me", "E1"),
    FormRow("9/9/2025", "", "A@X.EDU", "", <<>>, "", "E1"),
    FormRow("9/9/2025", "Cy", "", "", PA_FORMATTED, "Yes, text me", ""),
    FormRow("9/9/2025", "Bo", "b@x.edu", "", PA, "Yes, text me", ""),
    FormRow("9/9/2025", "Dee", "", "", <<>>, "Yes, text me", "E1") }

SyncIdle == [pc |-> "idle", rows |-> <<>>, n |-> 0, r |-> 0]

Init ==
  /\ roster \in InitRosters
  /\ responses = <<>>
  /\ attendance = <<>>
  /\ smsLog = [header |-> "none", rows |-> <<>>]
  /\ props \in InitProps
  /\ config \in InitConfigs
  /\ headerRow = FullHeader
  /\ userProps = [SMS_AUTH_HASH |-> "", SMS_AUTH_TIME |-> 0]
  /\ now = 0
  /\ sync = SyncIdle
  /\ http = <<>>
  /\ ret = [op |-> "init"]
  /\ stopped = {}

\* the number of log rows written by logSms_ ("OUT") or logInbound_ ("IN")
LogRows(kind) == Cardinality({i \in 1..Len(smsLog.rows) : smsLog.rows[i].kind = kind})

Unprocessed == {i \in 1..Len(responses) : ToLowerCase(responses[i].Processed) # "yes"}

\* a respondent submits the form: one row is appended to the response sheet
SubmitForm(row) ==
  /\ sync.pc = "idle"
  /\ Len(responses) < MaxResponses
  /\ Len(roster) + Cardinality(Unprocessed) < MaxRoster
  /\ responses' = Append(responses, row)
  /\ http' = <<>>
  /\ ret' = [op |-> "SubmitForm"]
  /\ UNCHANGED <<roster, attendance, smsLog, props, config, headerRow, userProps, now, sync, stopped>>

-----------------------------------------------------------------------------
(* syncStudentDatabase: the pass reads the roster and builds its index once, *)
(* then handles the response rows one by one                               *)

NoSend == [success |-> FALSE, error |-> "", errorCode |-> 0, threw |-> FALSE,
           rows |-> <<>>, reqs |-> <<>>]

\* an AfterSave that welcomes every submission that opts in, whatever the
\* roster said before
AfterSave_AlwaysWelcome(row, idxKey, e, incomingOptYes, wasYes, studentSaved, outcome) ==
  [kind |-> IF e > 0 THEN "update" ELSE "insert",
   roster |-> IF e > 0 THEN [roster EXCEPT ![e] = studentSaved]
              ELSE Append(roster, studentSaved),
   attendance |->
     IF Trim(row.EventID) # "" /\ Trim(ToLowerCase(studentSaved.CampusEmail)) # ""
        /\ ~hasAttendance_(attendance, Trim(row.EventID),
                           Trim(ToLowerCase(studentSaved.CampusEmail)))
     THEN Append(attendance, [EventID |-> Trim(row.EventID),
                              CampusEmail |-> Trim(ToLowerCase(studentSaved.CampusEmail))])
     ELSE attendance,
   snd |-> IF incomingOptYes /\ studentSaved.Phone # <<>>
           THEN sendSms_(toE164_(studentSaved.Phone), WelcomeBody, outcome)
           ELSE NoSend,
   rowNumber |-> IF e > 0 THEN e ELSE Len(roster) + 1,
   optYes |-> incomingOptYes,
   phone |-> studentSaved.Phone,
   key |-> idxKey]

\* lines 150-201: attendance, the welcome message and the result of one row,
\* once the student is saved as `studentSaved` in roster row e (0: appended)
AfterSave(row, idxKey, e, incomingOptYes, wasYes, studentSaved, outcome) ==
  [kind |-> IF e > 0 THEN "update" ELSE "insert",
   roster |-> IF e > 0 THEN [roster EXCEPT ![e] = studentSaved]
              ELSE Append(roster, studentSaved),
   attendance |->
     IF Trim(row.EventID) # "" /\ Trim(ToLowerCase(studentSaved.CampusEmail)) # ""
        /\ ~hasAttendance_(attendance, Trim(row.EventID),
                           Trim(ToLowerCase(studentSaved.CampusEmail)))
     THEN Append(attendance, [EventID |-> Trim(row.EventID),
                              CampusEmail |-> Trim(ToLowerCase(studentSaved.CampusEmail))])
     ELSE attendance,
   snd |-> IF incomingOptYes /\ ~wasYes /\ studentSaved.Phone # <<>>
           THEN sendSms_(toE164_(studentSaved.Phone), WelcomeBody, outcome)
           ELSE NoSend,
   rowNumber |-> IF e > 0 THEN e ELSE Len(roster) + 1,
   optYes |-> incomingOptYes,
   phone |-> studentSaved.Phone,
   key |-> idxKey]

\* lines 115-131: the row written back over the indexed record `obj`
UpdatedRecord(obj, incoming) ==
  IF incoming.OptIn = "Yes"
  THEN [mergeRecords_(obj, incoming) EXCEPT !.OptIn = "Yes"]
  ELSE mergeRecords_(obj, incoming)

\* lines 141-148: the blank record overlaid with the submission
Overlay(incoming) ==
  [k \in DOMAIN BlankRow |-> IF k \in DOMAIN incoming THEN incoming[k] ELSE BlankRow[k]]

\* lines 149-172: the row appended for a new student
NewRecord(overlay, incoming) ==
  [overlay EXCEPT
     !.JoinDate = IF overlay.JoinDate = "" THEN FormatDate(now) ELSE @,
     !.OptIn = IF incoming.OptIn = "Yes" THEN "Yes"
               ELSE IF overlay.OptIn = "" THEN "?" ELSE @]

\* lines 108-173: update the indexed row e of the snapshot, or append
SaveStudent(row, incoming, idxKey, e, outcome) ==
  IF e > 0
  THEN AfterSave(row, idxKey, e, incoming.OptIn = "Yes",
                 ToLowerCase(sync.rows[e].OptIn) = "yes",
                 UpdatedRecord(sync.rows[e], incoming), outcome)
  ELSE AfterSave(row, idxKey, 0, incoming.OptIn = "Yes", FALSE,
                 NewRecord(Overlay(incoming), incoming), outcome)

\* the loop body without the guard of lines 103-107: a submission without a
\* usable key is saved like any other
MatchStudent_NoGuard(row, incoming, keyValue, outcome) ==
  SaveStudent(row, incoming, makeIndexKey_(inferMatchKey_(incoming), keyValue),
              buildIndex_(sync.rows, makeIndexKey_(inferMatchKey_(incoming), keyValue)),
              outcome)

\* lines 95-107: the identity key of the submission
MatchStudent(row, incoming, keyValue, outcome) ==
  IF keyValue.at = 0 \/ inferMatchKey_(incoming) = ""
  THEN [kind |-> "nokey", roster |-> roster, attendance |-> attendance,
        snd |-> NoSend, rowNumber |-> 0, optYes |-> FALSE, phone |-> <<>>,
        key |-> [name |-> "", val |-> "", at |-> 0]]
  ELSE SaveStudent(row, incoming, makeIndexKey_(inferMatchKey_(incoming), keyValue),
                   buildIndex_(sync.rows,
                               makeIndexKey_(inferMatchKey_(incoming), keyValue)),
                   outcome)

\* lines 87-201 of the loop body for one unprocessed response row
ProcessSubmission(row, outcome) ==
  MatchStudent(row, BuildIncoming(row),
               firstNonEmpty_(BuildIncoming(row).CampusEmail, BuildIncoming(row).Email,
                              BuildIncoming(row).Phone),
               outcome)

\* lines 66-80: read the roster, build the index, read the response sheet
SyncStart ==
  /\ sync.pc = "idle"
  /\ LogRows("OUT") + Cardinality(Unprocessed) <= MaxSent
  /\ sync' = IF Len(responses) = 0 THEN SyncIdle
             ELSE [pc |-> "run", rows |-> roster, n |-> Len(responses), r |-> 1]
  /\ http' = <<>>
  /\ ret' = [op |-> "syncStudentDatabase"]
  /\ UNCHANGED <<roster, responses, attendance, smsLog, props, config, headerRow, userProps, now, stopped>>

\* what one handled response row leaves behind
SyncRowDone(r, p) ==
  /\ roster' = p.roster
  /\ attendance' = p.attendance
  /\ smsLog' = LogAll(smsLog, p.snd.rows)
  /\ http' = p.snd.reqs
  /\ responses' = [responses EXCEPT ![r].Processed = "YES"]
  /\ stopped' = IF p.optYes /\ p.phone # <<>>
                THEN stopped \ {normalizePhoneDigits_(p.phone)}
                ELSE stopped
  /\ ret' = [op |-> "syncRow", r |-> r, kind |-> p.kind, rowNumber |-> p.rowNumber,
             optYes |-> p.optYes, key |-> p.key, before |-> roster]

\* lines 82-202: one turn of the loop over the response rows
SyncRow(outcome) ==
  /\ sync.pc = "run"
  /\ IF ToLowerCase(responses[sync.r].Processed) = "yes"
     THEN /\ UNCHANGED <<roster, responses, attendance, smsLog, stopped>>
          /\ http' = <<>>
          /\ ret' = [op |-> "syncRow", r |-> sync.r, kind |-> "skip"]
     ELSE \E p \in {ProcessSubmission(responses[sync.r], outcome)} :
            SyncRowDone(sync.r, p)
  /\ sync' = IF sync.r = sync.n THEN SyncIdle ELSE [sync EXCEPT !.r = @ + 1]
  /\ UNCHANGED <<props, config, headerRow, userProps, now>>

\* the places of the loop body at which the host may end the script after
\* the roster write and before the Processed flag: before the welcome
\* message, before the attendance append, before the flag
CutStages == {"saved", "sent", "attended"}

\* lines 82-201 ended by the host (execution time limit) at `stage`: the
\* roster row is written, the Processed flag is not, the pass is over
SyncRowCutOff(outcome, stage) ==
  /\ sync.pc = "run"
  /\ ToLowerCase(responses[sync.r].Processed) # "yes"
  /\ \E p \in {ProcessSubmission(responses[sync.r], outcome)} :
       /\ p.kind # "nokey"
       /\ roster' = p.roster
       /\ smsLog' = IF stage = "saved" THEN smsLog ELSE LogAll(smsLog, p.snd.rows)
       /\ http' = IF stage = "saved" THEN <<>> ELSE p.snd.reqs
       /\ attendance' = IF stage = "attended" THEN p.attendance ELSE attendance
       /\ stopped' = IF p.optYes /\ p.phone # <<>>
                     THEN stopped \ {normalizePhoneDigits_(p.phone)}
                     ELSE stopped
       /\ ret' = [op |-> "syncRowCutOff", r |-> sync.r, kind |-> p.kind,
                  rowNumber |-> p.rowNumber, stage |-> stage,
                  err |-> "Exceeded maximum execution time"]
  /\ sync' = SyncIdle
  /\ UNCHANGED <<responses, props, config, headerRow, userProps, now>>

-----
(* smsInbound.js: the inbound webhook *)

STOP_WORDS == {"STOP", "STOPALL", "UNSUBSCRIBE", "CANCEL", "END", "QUIT"}

InRow(from, body, status, sid) ==
  [kind |-> "IN", From |-> from, Body |-> body, Status |-> status, Sid |-> sid]

SYSTEM == <<"SYSTEM">>

escapeXml_(s) == IF s = "<&>" THEN "&lt;&amp;&gt;" ELSE s

\* a twiml_ that writes the Message element for an empty message too
twiml_AlwaysMessage(message) ==
  [mime |-> "XML", Response |-> <<[Message |-> escapeXml_(message)]>>]

\* the reply envelope: a Response element holding at most one Message element
twiml_(message) ==
  [mime |-> "XML",
   Response |-> IF message # "" THEN <<[Message |-> escapeXml_(message)]>> ELSE <<>>]

\* updateOptInByPhone_ as it would be with the break taken after the first
\* matching row whatever opts says
updateOptInByPhone_FirstMatch(vals, fromNumber, value, updateAll) ==
  LET want == normalizePhoneDigits_(fromNumber)
      hit == {r \in 1..Len(vals) :
                normalizePhoneDigits_(vals[r].Phone) # <<>>
                /\ normalizePhoneDigits_(vals[r].Phone) = want}
      first == IF hit = {} THEN 0 ELSE CHOOSE r \in hit : \A q \in hit : r <= q
  IN [rows |-> [r \in 1..Len(vals) |->
                  IF r = first THEN [vals[r] EXCEPT !.OptIn = value] ELSE vals[r]],
      changed |-> hit # {},
      matches |-> IF hit = {} THEN 0 ELSE 1,
      log |-> <<InRow(SYSTEM, "STOP/START: updated row(s)", "", "")>>]

\* updateOptInByPhone_(fromNumber, value, opts) on sheet rows `vals`:
\* the rows as written, the SYSTEM log rows, the number of matches
updateOptInByPhone_(vals, fromNumber, value, updateAll) ==
  LET want == normalizePhoneDigits_(fromNumber)
      hit == {r \in 1..Len(vals) :
                LET have == normalizePhoneDigits_(vals[r].Phone)
                IN have # <<>> /\ have = want}
      first == IF hit = {} THEN 0 ELSE CHOOSE r \in hit : \A q \in hit : r <= q
      written == IF updateAll THEN hit ELSE hit \cap {first}
  IN IF Len(vals) = 0
     THEN [rows |-> vals, changed |-> FALSE, matches |-> 0,
           log |-> <<InRow(SYSTEM, "Student Database is empty", "", "")>>]
     ELSE IF want = <<>>
     THEN [rows |-> vals, changed |-> FALSE, matches |-> 0,
           log |-> <<InRow(SYSTEM, "Invalid inbound From", "", "")>>]
     ELSE [rows |-> [r \in 1..Len(vals) |->
                       IF r \in written THEN [vals[r] EXCEPT !.OptIn = value]
                       ELSE vals[r]],
           changed |-> written # {},
           matches |-> IF updateAll THEN Cardinality(hit) ELSE Cardinality(written),
           log |-> IF hit = {}
                   THEN <<InRow(SYSTEM, "STOP/START: no row matched", "", "")>>
                   ELSE <<InRow(SYSTEM, "STOP/START: updated row(s)", "", "")>>]

\* a doPost that writes the inbound record after the roster update
doPost_LogAfter(p) ==
  LET from == p.From
      body == Trim(p.Body)
      status == p.MessageStatus
      sid == p.MessageSid
      logged == logSms_(smsLog, InRow(from, body, status, sid))
      upper == ToUpperCase(body)
      value == IF upper \in STOP_WORDS THEN "No" ELSE "Yes"
      u == updateOptInByPhone_(roster, from, value, TRUE)
  IN /\ LogRows("IN") + 2 <= MaxInbound
     /\ IF status = "" /\ (upper \in STOP_WORDS \/ upper = "START")
        THEN /\ roster' = u.rows
             /\ smsLog' = logSms_(LogAll(smsLog, u.log), InRow(from, body, status, sid))
             /\ stopped' = IF upper = "START"
                           THEN stopped \ {normalizePhoneDigits_(from)}
                           ELSE IF u.changed
                           THEN stopped \cup {normalizePhoneDigits_(from)}
                           ELSE stopped
             /\ ret' = [op |-> "doPost", p |-> p, reply |-> twiml_(""),
                        logged |-> 1 + Len(u.log)]
        ELSE /\ smsLog' = logged
             /\ UNCHANGED <<roster, stopped>>
             /\ ret' = [op |-> "doPost", p |-> p, logged |-> 1,
                        reply |-> IF status = "" /\ upper = "PING"
                                  THEN twiml_("PONG") ELSE twiml_("")]
     /\ http' = <<>>
     /\ UNCHANGED <<responses, attendance, props, config, headerRow, userProps, now, sync>>

\* a doPost that handles the keywords of a status callback as well
doPost_IgnoreStatus(p) ==
  LET from == p.From
      body == Trim(p.Body)
      status == p.MessageStatus
      sid == p.MessageSid
      logged == logSms_(smsLog, InRow(from, body, status, sid))
      upper == ToUpperCase(body)
      value == IF upper \in STOP_WORDS THEN "No" ELSE "Yes"
      u == updateOptInByPhone_(roster, from, value, TRUE)
  IN /\ LogRows("IN") + 2 <= MaxInbound
     /\ IF upper \in STOP_WORDS \/ upper = "START"
        THEN /\ roster' = u.rows
             /\ smsLog' = LogAll(logged, u.log)
             /\ stopped' = IF upper = "START"
                           THEN stopped \ {normalizePhoneDigits_(from)}
                           ELSE IF u.changed
                           THEN stopped \cup {normalizePhoneDigits_(from)}
                           ELSE stopped
             /\ ret' = [op |-> "doPost", p |-> p, reply |-> twiml_(""),
                        logged |-> 1 + Len(u.log)]
        ELSE /\ smsLog' = logged
             /\ UNCHANGED <<roster, stopped>>
             /\ ret' = [op |-> "doPost", p |-> p, logged |-> 1,
                        reply |-> IF status = "" /\ upper = "PING"
                                  THEN twiml_("PONG") ELSE twiml_("")]
     /\ http' = <<>>
     /\ UNCHANGED <<responses, attendance, props, config, headerRow, userProps, now, sync>>

doPost(p) ==
  LET from == p.From
      body == Trim(p.Body)
      status == p.MessageStatus
      sid == p.MessageSid
      logged == logSms_(smsLog, InRow(from, body, status, sid))
      upper == ToUpperCase(body)
      value == IF upper \in STOP_WORDS THEN "No" ELSE "Yes"
      u == updateOptInByPhone_(roster, from, value, TRUE)
  IN /\ LogRows("IN") + 2 <= MaxInbound
     /\ IF status = "" /\ (upper \in STOP_WORDS \/ upper = "START")
        THEN /\ roster' = u.rows
             /\ smsLog' = LogAll(logged, u.log)
             /\ stopped' = IF upper = "START"
                           THEN stopped \ {normalizePhoneDigits_(from)}
                           ELSE IF u.changed
                           THEN stopped \cup {normalizePhoneDigits_(from)}
                           ELSE stopped
             /\ ret' = [op |-> "doPost", p |-> p, reply |-> twiml_(""),
                        logged |-> 1 + Len(u.log)]
        ELSE /\ smsLog' = logged
             /\ UNCHANGED <<roster, stopped>>
             /\ ret' = [op |-> "doPost", p |-> p, logged |-> 1,
                        reply |-> IF status = "" /\ upper = "PING"
                                  THEN twiml_("PONG") ELSE twiml_("")]
     /\ http' = <<>>
     /\ UNCHANGED <<responses, attendance, props, config, headerRow, userProps, now, sync>>

Payload(from, body, status) ==
  [From |-> from, Body |-> body, MessageStatus |-> status, MessageSid |-> "SMin"]

\* what a webhook call may carry
Payloads ==
  { Payload(PA_E164, " stop ", ""), Payload(PA_E164, "START", "") }

-----------------------------------------------------------------------------
(* smsSend.js: access control, passcode session, dry run *)

ActiveUserEmail == "me@x.edu"

\* raw.split(/[\s,;]+/).filter(Boolean) on the allow-lists of the model
SplitList(raw) ==
  CASE raw = "me@x.edu, other@x.edu" -> {"me@x.edu", "other@x.edu"}
    [] raw = ""                      -> {}
    [] OTHER                         -> {raw}

isAdmin_ ==
  LET raw == ToLowerCase(Trim(props.SMS_ADMIN_EMAILS))
      me == ToLowerCase(Trim(ActiveUserEmail))
  IN IF raw = "" THEN FALSE
     ELSE IF raw = "*" THEN TRUE
     ELSE IF me = "" THEN FALSE
     ELSE me \in SplitList(raw)

passHash_ == ToLowerCase(Trim(props.SMS_PANEL_PASS_SHA256))

\* the digest of the passcodes a caller may type
sha256Hex_(s) == IF Trim(s) = "secret" THEN "hash1" ELSE "hash0"

\* a requirePass_ that still accepts a session exactly twelve hours old
PassOk_Inclusive ==
  LET required == passHash_
      stored == ToLowerCase(Trim(userProps.SMS_AUTH_HASH))
      ts == userProps.SMS_AUTH_TIME
      fresh == (now - ts) <= SESSION_TTL_MS
  IN required = "" \/ (stored = required /\ fresh)

\* requirePass_ returns normally
PassOk ==
  LET required == passHash_
      stored == ToLowerCase(Trim(userProps.SMS_AUTH_HASH))
      ts == userProps.SMS_AUTH_TIME
      fresh == (now - ts) < SESSION_TTL_MS
  IN required = "" \/ (stored = required /\ fresh)

\* the error requireAdmin_(); requirePass_() raises, "" when neither throws
GateError ==
  IF ~isAdmin_ THEN "Not authorized (admin check failed)."
  ELSE IF ~PassOk THEN "Passcode required."
  ELSE ""

isDryRun_ ==
  ToLowerCase(IF props.SMS_DRY_RUN # "" THEN props.SMS_DRY_RUN ELSE "false") = "true"

DRY_PREFIX == <<"[DRY RUN] ">>

\* sendOneWithControls_(toPhoneE164, body): the exception raised ("" if none),
\* the log rows written and the requests issued
sendOneWithControls_(toPhoneE164, body, outcome) ==
  IF GateError # ""
  THEN [err |-> GateError, rows |-> <<>>, reqs |-> <<>>]
  ELSE IF isDryRun_
  THEN [err |-> "",
        rows |-> <<OutRow(toPhoneE164, DRY_PREFIX \o body, "DRYRUN", 0, "")>>,
        reqs |-> <<>>]
  ELSE LET res == sendSms_(toPhoneE164, body, outcome)
       IN [err |-> IF res.threw THEN res.error ELSE "",
           rows |-> res.rows, reqs |-> res.reqs]

\* a loop calling sendOneWithControls_ for each of `dests` in turn; an
\* exception leaves the loop
RECURSIVE SendEach(_, _, _)
SendEach(dests, outs, acc) ==
  IF dests = <<>> THEN acc
  ELSE LET one == sendOneWithControls_(Head(dests).to, Head(dests).body, Head(outs))
           acc2 == [err |-> one.err,
                    rows |-> acc.rows \o one.rows,
                    reqs |-> acc.reqs \o one.reqs,
                    done |-> IF one.err = "" THEN Append(acc.done, Head(dests).to)
                             ELSE acc.done]
       IN IF one.err # "" THEN acc2 ELSE SendEach(Tail(dests), Tail(outs), acc2)

NoneSent == [err |-> "", rows |-> <<>>, reqs |-> <<>>, done |-> <<>>]

Dest(to, body) == [to |-> to, body |-> body]

\* uiCheckPass(candidate)
uiCheckPass(candidate) ==
  LET required == passHash_
      ok == required # "" /\ sha256Hex_(candidate) = required
  IN /\ sync.pc = "idle"
     /\ userProps' = IF ok THEN [SMS_AUTH_HASH |-> required, SMS_AUTH_TIME |-> now]
                     ELSE userProps
     /\ http' = <<>>
     /\ ret' = [op |-> "uiCheckPass", ok |-> ok]
     /\ UNCHANGED <<roster, responses, attendance, smsLog, props, config, headerRow, now, sync, stopped>>

\* uiNeedsPass(): whether the panel has to ask for the passcode
uiNeedsPass ==
  LET required == passHash_
      stored == ToLowerCase(Trim(userProps.SMS_AUTH_HASH))
      ts == userProps.SMS_AUTH_TIME
  IN /\ sync.pc = "idle"
     /\ http' = <<>>
     /\ ret' = [op |-> "uiNeedsPass",
                needs |-> IF required = "" THEN FALSE
                          ELSE ~(stored = required /\ (now - ts) < SESSION_TTL_MS)]
     /\ UNCHANGED <<roster, responses, attendance, smsLog, props, config, headerRow, userProps, now,
                    sync, stopped>>

\* an administrator sets or removes the script property SMS_PANEL_PASS_SHA256
SetPassHash(hash) ==
  /\ sync.pc = "idle"
  /\ hash # props.SMS_PANEL_PASS_SHA256
  /\ props' = [props EXCEPT !.SMS_PANEL_PASS_SHA256 = hash]
  /\ http' = <<>>
  /\ ret' = [op |-> "SetPassHash"]
  /\ UNCHANGED <<roster, responses, attendance, smsLog, config, headerRow, userProps, now, sync,
                 stopped>>

\* time passes to the last millisecond before a whole session lifetime, then
\* to the whole lifetime
Elapse ==
  /\ sync.pc = "idle"
  /\ now < (MaxTicks + 1) * SESSION_TTL_MS
  /\ now' = IF now % SESSION_TTL_MS = SESSION_TTL_MS - 1
            THEN now + 1 ELSE now + SESSION_TTL_MS - 1
  /\ http' = <<>>
  /\ ret' = [op |-> "Elapse"]
  /\ UNCHANGED <<roster, responses, attendance, smsLog, props, config, headerRow, userProps, sync,
                 stopped>>

\* time passes
Tick ==
  /\ sync.pc = "idle"
  /\ now < MaxTicks * TICK_MS
  /\ now' = now + TICK_MS
  /\ http' = <<>>
  /\ ret' = [op |-> "Tick"]
  /\ UNCHANGED <<roster, responses, attendance, smsLog, props, config, headerRow, userProps, sync, stopped>>

-----------------------------------------------------------------------------
(* smsSend.js: templates, audience resolution and the send loops *)

smsFooter_ == " Reply STOP to opt out. HELP for help."

\* the "Event Log" sheet
EventLog == << [id |-> "E1", title |-> "Demo Night", date |-> "", location |-> "Room 1"] >>

getEventInfo_(eventId) ==
  LET hit == {i \in 1..Len(EventLog) : Trim(EventLog[i].id) = Trim(eventId)}
  IN IF hit = {} THEN [title |-> "our event", date |-> "", location |-> ""]
     ELSE LET i == CHOOSE j \in hit : \A k \in hit : j <= k
          IN [title |-> EventLog[i].title, date |-> EventLog[i].date,
              location |-> EventLog[i].location]

reminderTemplate_(title, dateStr, location) ==
  <<"Reminder: ", IF title # "" THEN title ELSE "the event">>
  \o (IF dateStr # "" THEN <<" on ", dateStr>> ELSE <<>>)
  \o (IF location # "" THEN <<" at ", location>> ELSE <<>>)
  \o <<". We look forward to seeing you.", smsFooter_>>

\* A template is a sequence of tokens: literal text, a placeholder {key}, or
\* an optional segment {key? ...}.  The rendered text is the sequence of its
\* non-empty pieces.
Lit(text) == [t |-> "lit", s |-> text]
Ph(key) == [t |-> "ph", s |-> key]
Opt(key, seg) == [t |-> "opt", s |-> key, seg |-> seg]

CtxKeys == {"title", "date", "location", "footer"}

\* steps 1 and 3: the four context placeholders take their value, any other
\* placeholder stays as written
RECURSIVE Substitute(_, _)
Substitute(tokens, ctx) ==
  IF tokens = <<>> THEN <<>>
  ELSE LET tok == Head(tokens)
           piece == IF tok.t = "lit" THEN tok.s
                    ELSE IF tok.s \in CtxKeys THEN ctx[tok.s]
                    ELSE "{" \o tok.s \o "}"
       IN (IF piece = "" THEN <<>> ELSE <<piece>>) \o Substitute(Tail(tokens), ctx)

\* the \s* after the question mark takes the white space a segment starts with
SegmentText(seg) ==
  IF seg # <<>> /\ Head(seg).t = "lit"
  THEN <<Lit(CASE Head(seg).s = " on " -> "on "
               [] Head(seg).s = " at " -> "at "
               [] OTHER -> Head(seg).s)>> \o Tail(seg)
  ELSE seg

\* step 2: an optional segment is kept when ctx[key] is non-empty
RECURSIVE Expand(_, _)
Expand(tokens, ctx) ==
  IF tokens = <<>> THEN <<>>
  ELSE LET tok == Head(tokens)
       IN (IF tok.t # "opt" THEN <<tok>>
           ELSE IF tok.s \in CtxKeys /\ Trim(ctx[tok.s]) # "" THEN SegmentText(tok.seg)
           ELSE <<>>)
          \o Expand(Tail(tokens), ctx)

uiRenderPreview(body, eventId) ==
  LET ev == getEventInfo_(eventId)
      ctx == [title |-> Trim(ev.title), date |-> Trim(ev.date),
              location |-> Trim(ev.location), footer |-> smsFooter_]
  IN Substitute(Expand(body, ctx), ctx)

\* base.replace(/\{firstName\}/g, p.firstName || '')
RECURSIVE FillFirstName(_, _)
FillFirstName(text, firstName) ==
  IF text = <<>> THEN <<>>
  ELSE (IF Head(text) = "{firstName}"
        THEN (IF firstName = "" THEN <<>> ELSE <<firstName>>)
        ELSE <<Head(text)>>)
       \o FillFirstName(Tail(text), firstName)

\* name.split(/\s+/)[0] on the names of the model
FirstWord(name) == IF name = "Ann Lee" THEN "Ann" ELSE name

\* Map.get on byCampus: the last roster row with the campus email, 0 if none
byCampus(dVals, ce) ==
  LET hit == {i \in 1..Len(dVals) : ToLowerCase(Trim(dVals[i].CampusEmail)) = ce}
  IN IF hit = {} THEN 0 ELSE Max(hit)

\* the values of f(1..n) that are non-empty, each once, in order of first
\* occurrence (insertion order of a Set)
RECURSIVE InsertionOrder(_, _, _)
InsertionOrder(cells, i, acc) ==
  IF i > Len(cells) THEN acc
  ELSE InsertionOrder(cells, i + 1,
         IF cells[i] = "" \/ (\E j \in 1..Len(acc) : acc[j] = cells[i])
         THEN acc ELSE Append(acc, cells[i]))

\* the elements of `seq` whose flag in `ok` is set, in order
RECURSIVE Keep(_, _)
Keep(seq, ok) ==
  IF seq = <<>> THEN <<>>
  ELSE (IF ok[Len(ok) - Len(seq) + 1] THEN <<Head(seq)>> ELSE <<>>) \o Keep(Tail(seq), ok)

\* lines 741-757: the person record of each address that has a roster row
\* with an affirmative opt-in and a phone
PeopleOf(emails) ==
  Keep([k \in 1..Len(emails) |->
          IF byCampus(roster, emails[k]) > 0
          THEN [campusEmail |-> emails[k],
                phone |-> roster[byCampus(roster, emails[k])].Phone,
                firstName |-> FirstWord(Trim(roster[byCampus(roster, emails[k])].StudentName))]
          ELSE [campusEmail |-> emails[k]]],
       [k \in 1..Len(emails) |->
          /\ byCampus(roster, emails[k]) > 0
          /\ ToLowerCase(roster[byCampus(roster, emails[k])].OptIn) = "yes"
          /\ roster[byCampus(roster, emails[k])].Phone # <<>>])

\* resolveAudience_(eventId, audienceKey).people
resolveAudience_(eventId, audienceKey) ==
  PeopleOf(InsertionOrder(
    IF audienceKey = "attendees"
    THEN [i \in 1..Len(attendance) |->
            IF Trim(attendance[i].EventID) = Trim(eventId)
            THEN ToLowerCase(Trim(attendance[i].CampusEmail)) ELSE ""]
    ELSE IF audienceKey = "alloptedin"
    THEN [i \in 1..Len(roster) |->
            IF ToLowerCase(roster[i].OptIn) = "yes"
            THEN ToLowerCase(Trim(roster[i].CampusEmail)) ELSE ""]
    ELSE <<>>, 1, <<>>))

\* a batch operation of smsSend.js ends: log and requests of the loop, and
\* what the caller sees
FinishSend(op, args, dests, loop) ==
  /\ smsLog' = LogAll(smsLog, loop.rows)
  /\ http' = loop.reqs
  /\ ret' = [op |-> op, args |-> args, err |-> loop.err,
             audience |-> [i \in 1..Len(dests) |-> dests[i].to],
             done |-> loop.done]
  /\ UNCHANGED <<roster, responses, attendance, props, config, headerRow, userProps, now, sync, stopped>>

FailSend(op, args, err) ==
  /\ http' = <<>>
  /\ ret' = [op |-> op, args |-> args, err |-> err, audience |-> <<>>, done |-> <<>>]
  /\ UNCHANGED <<roster, responses, attendance, smsLog, props, config, headerRow, userProps, now, sync,
                 stopped>>

\* the vendor's answers to n requests; none is asked for when the handlers
\* issue no request
Answers(n) ==
  IF isDryRun_ \/ ~sendSms_(<<>>, <<>>, "ok").reqs # <<>>
  THEN {[i \in 1..n |-> "ok"]}
  ELSE [1..n -> Outcomes]

\* a handler of smsSend.js that passes the gates and then calls
\* sendOneWithControls_ for each of `dests`
SendLoop(op, args, dests) ==
  /\ sync.pc = "idle"
  /\ LogRows("OUT") + Len(dests) <= MaxSent
  /\ IF GateError # "" THEN FailSend(op, args, GateError)
     ELSE \E outs \in Answers(Len(dests)) :
            \E loop \in {SendEach(dests, outs, NoneSent)} :
              FinishSend(op, args, dests, loop)

PersonalDests(base, people) ==
  [i \in 1..Len(people) |->
     Dest(toE164_(people[i].phone), FillFirstName(base, people[i].firstName))]

uiSendDests(payload) ==
  PersonalDests(uiRenderPreview(payload.body, payload.eventId),
                resolveAudience_(payload.eventId, payload.audienceKey))

uiSend(payload) ==
  \E dests \in {uiSendDests(payload)} : SendLoop("uiSend", payload.audienceKey, dests)

OptedInDests(message) ==
  Keep([r \in 1..Len(roster) |->
          Dest(toE164_(roster[r].Phone), message \o <<smsFooter_>>)],
       [r \in 1..Len(roster) |->
          ToLowerCase(roster[r].OptIn) = "yes" /\ roster[r].Phone # <<>>])

sendBulkToOptedIn_(message) ==
  \E dests \in {OptedInDests(message)} : SendLoop("sendBulkToOptedIn_", "", dests)

\* the rows sendToEventAttendees_(eventId, body) sends to, given the distinct
\* campus emails `seen` of the event's attendance rows
AttendeePhones(seen) ==
  Keep([k \in 1..Len(seen) |->
          IF byCampus(roster, seen[k]) > 0
          THEN roster[byCampus(roster, seen[k])].Phone ELSE <<>>],
       [k \in 1..Len(seen) |->
          /\ byCampus(roster, seen[k]) > 0
          /\ ToLowerCase(roster[byCampus(roster, seen[k])].OptIn) = "yes"
          /\ roster[byCampus(roster, seen[k])].Phone # <<>>])

EventAttendees(eventId) ==
  AttendeePhones(InsertionOrder(
    [r \in 1..Len(attendance) |->
       IF Trim(attendance[r].EventID) = eventId
       THEN ToLowerCase(Trim(attendance[r].CampusEmail)) ELSE ""], 1, <<>>))

SameBodyDests(phones, body) ==
  [i \in 1..Len(phones) |-> Dest(toE164_(phones[i]), body)]

ReminderDests(eventId) ==
  SameBodyDests(EventAttendees(eventId),
                reminderTemplate_(getEventInfo_(eventId).title, getEventInfo_(eventId).date,
                                  getEventInfo_(eventId).location))

\* sendReminderForEvent_(eventId), which calls sendToEventAttendees_
sendReminderForEvent_(eventId) ==
  \E dests \in {ReminderDests(eventId)} :
    SendLoop("sendReminderForEvent_", eventId, dests)

\* resendFailures_(): under the header logSms_ writes, the columns To, Body and
\* HTTP Code are the 2nd, 3rd and 5th cells of a row; there is no Status column
LogCell(row, header) ==
  CASE header = "To"   -> IF row.kind = "OUT" THEN row.To ELSE <<"IN">>
    [] header = "Body" -> IF row.kind = "OUT" THEN row.Body ELSE row.From
    [] OTHER           -> IF row.kind = "OUT" THEN row.Code ELSE 0

FailedDests ==
  LET vals == smsLog.rows
      failed == [r \in 1..Len(vals) |->
                   /\ LogCell(vals[r], "HTTP Code") >= 400
                   /\ LogCell(vals[r], "To") # <<>>
                   /\ LogCell(vals[r], "Body") # <<>>]
  IN IF smsLog.header # "OUT" THEN <<>>
     ELSE Keep([r \in 1..Len(vals) |->
                  Dest(LogCell(vals[r], "To"), LogCell(vals[r], "Body"))], failed)

resendFailures_ ==
  /\ sync.pc = "idle"
  /\ IF smsLog.header = "none" \/ Len(smsLog.rows) = 0
     THEN FailSend("resendFailures_", "", "alert: No log entries to retry.")
     ELSE IF smsLog.header # "OUT"
     THEN FailSend("resendFailures_", "", "alert: SMS Log missing To/Body headers.")
     ELSE \E dests \in {FailedDests} :
            /\ LogRows("OUT") + Len(dests) <= MaxRetried
            /\ \E outs \in Answers(Len(dests)) :
                 \E loop \in {SendEach(dests, outs, NoneSent)} :
                   FinishSend("resendFailures_", "", dests, loop)

ReminderTemplate ==
  << Ph("firstName"), Opt("firstName", <<Lit(", ")>>), Lit("Reminder about "),
     Ph("title"), Opt("date", <<Lit(" on "), Ph("date")>>),
     Opt("location", <<Lit(" at "), Ph("location")>>), Lit(".") >>

BulkMessage == <<"Meeting tonight.">>

AttendeesPayload ==
  [eventId |-> "E1", audienceKey |-> "attendees", body |-> ReminderTemplate]

SendPayloads ==
  { AttendeesPayload,
    [eventId |-> "E1", audienceKey |-> "alloptedin", body |-> ReminderTemplate] }

-----------------------------------------------------------------------------
(* smsBulkSend.js: the cursor batch sender *)

DEFAULT_MESSAGE == <<"Hello! This is a message from our system.">>

getTwilioCredentials ==
  IF props.TWILIO_ACCOUNT_SID = "" \/ props.TWILIO_AUTH_TOKEN = ""
  THEN [isValid |-> FALSE,
        error |-> "TWILIO_ACCOUNT_SID and TWILIO_AUTH_TOKEN are required in Script Properties",
        from |-> "", messagingServiceSid |-> ""]
  ELSE IF props.TWILIO_FROM_NUMBER = "" /\ props.TWILIO_MESSAGING_SERVICE_SID = ""
  THEN [isValid |-> FALSE,
        error |-> "Either TWILIO_FROM_NUMBER or TWILIO_MESSAGING_SERVICE_SID must be set in Script Properties",
        from |-> "", messagingServiceSid |-> ""]
  ELSE [isValid |-> TRUE, error |-> "", from |-> props.TWILIO_FROM_NUMBER,
        messagingServiceSid |-> props.TWILIO_MESSAGING_SERVICE_SID]

\* COLUMN_MAPPINGS: script name -> header of the sheet
COLUMN_MAPPINGS ==
  [phone |-> "Phone #", opt_in |-> "SMS Opt-In", message |-> "Message",
   last_sent_at |-> "Last Sent At", last_error_code |-> "Last Error Code",
   last_error_message |-> "Last Error", last_send_status |-> "Send Status"]

\* getColumnMapping(sheet): the column of each script name whose header,
\* trimmed and in lower case, is the mapped name in lower case (the last such
\* column); 0 where the key is not in the map
getColumnMapping(h) ==
  [scriptName \in DOMAIN COLUMN_MAPPINGS |->
     LET cols == {i \in 1..Len(h) :
                    /\ Trim(ToLowerCase(h[i])) # ""
                    /\ Trim(ToLowerCase(h[i])) = ToLowerCase(COLUMN_MAPPINGS[scriptName])}
     IN IF cols = {} THEN 0 ELSE Max(cols)]

requiredBase == <<"phone", "opt_in">>
trackingCols == <<"last_sent_at", "last_error_code", "last_error_message", "last_send_status">>

\* lines 423-427: the headers of the required columns that are not mapped
MissingRequired(h) ==
  {COLUMN_MAPPINGS[requiredBase[k]] : k \in {j \in 1..2 : getColumnMapping(h)[requiredBase[j]] = 0}}

\* lines 440-449: the header row after the first n tracking columns were
\* looked at, each missing one written after the last column
RECURSIVE AddTracking(_, _)
AddTracking(h, n) ==
  IF n = 0 THEN h
  ELSE LET before == AddTracking(h, n - 1)
       IN IF getColumnMapping(h)[trackingCols[n]] = 0
          THEN Append(before, COLUMN_MAPPINGS[trackingCols[n]])
          ELSE before

\* lines 440-449: the column map validateColumns leaves to the caller
RECURSIVE MapTracking(_, _)
MapTracking(h, n) ==
  IF n = 0 THEN getColumnMapping(h)
  ELSE LET before == MapTracking(h, n - 1)
       IN IF getColumnMapping(h)[trackingCols[n]] = 0
          THEN [before EXCEPT ![trackingCols[n]] = Len(AddTracking(h, n - 1)) + 1]
          ELSE before

\* validateColumns(columnMap): the error it raises ("" for none).  The sheet
\* is looked up under CONFIG.SHEET_NAME, after the required columns were
\* checked and before a column is added
validateColumns ==
  IF MissingRequired(headerRow) # {}
  THEN "Missing required columns"
  ELSE IF config.SHEET_NAME # "Student Database"
  THEN "TypeError: Cannot read properties of null (reading 'getLastColumn')"
  ELSE ""

\* the header row and the column map after a validateColumns that returned
ValidatedHeader == AddTracking(headerRow, Len(trackingCols))
ValidatedMap == MapTracking(headerRow, Len(trackingCols))

isOptedIn(value) ==
  IF value = "" THEN FALSE
  ELSE ToUpperCase(Trim(value)) \in {"YES", "TRUE", "1", "Y", "CHECKED"}

\* a getCursor that resumes one row early, at the last row already handled
getCursor_Previous ==
  IF props.BULK_SMS_CURSOR # 0 THEN props.BULK_SMS_CURSOR - 1 ELSE 1

getCursor == IF props.BULK_SMS_CURSOR # 0 THEN props.BULK_SMS_CURSOR ELSE 1

\* a saveCursor that stores the row after the resume point
saveCursor_SkipOne(p, position) == [p EXCEPT !.BULK_SMS_CURSOR = position + 1]

saveCursor(p, position) == [p EXCEPT !.BULK_SMS_CURSOR = position]

resetCursor(p) == [p EXCEPT !.BULK_SMS_CURSOR = 0]

\* sendTwilioSMS(to, body, ...) with the vendor answering `outcome`
sendTwilioSMS(to, body, credentials, outcome) ==
  LET rsp == Vendor(outcome)
  IN IF credentials.messagingServiceSid = "" /\ credentials.from = ""
     THEN [success |-> FALSE, errorCode |-> Sym("CONFIG_ERROR"),
           errorMessage |-> "Neither TWILIO_FROM nor TWILIO_MESSAGING_SERVICE_SID is configured",
           threw |-> FALSE, requested |-> FALSE]
     ELSE IF rsp.throws
     THEN [success |-> FALSE, errorCode |-> Sym("NETWORK_ERROR"),
           errorMessage |-> "Exception", threw |-> FALSE, requested |-> TRUE]
     ELSE IF ~rsp.parses
     THEN [success |-> FALSE, errorCode |-> Sym("JSON_PARSE_ERROR"),
           errorMessage |-> "Failed to parse Twilio response", threw |-> FALSE,
           requested |-> TRUE]
     ELSE IF rsp.code = 201 \/ rsp.code = 200
     THEN [success |-> TRUE, errorCode |-> NoCode, errorMessage |-> "",
           threw |-> FALSE, requested |-> TRUE]
     ELSE [success |-> FALSE,
           errorCode |-> Code(IF rsp.jcode # 0 THEN rsp.jcode ELSE rsp.code),
           errorMessage |-> IF rsp.message # "" THEN rsp.message ELSE "Unknown error",
           threw |-> FALSE, requested |-> TRUE]

\* an updateRowSuccess that writes nothing at the row (the write held back to
\* the end of the batch)
updateRowSuccess_Deferred(sheet, rowNumber) == sheet

updateRowSuccess(sheet, rowNumber) ==
  [sheet EXCEPT ![rowNumber] =
     [@ EXCEPT !.LastSentAt = <<now>>, !.SendStatus = "SENT",
               !.LastErrorCode = NoCode, !.LastError = ""]]

\* an updateRowOptOut that records the rejection as updateRowError does and
\* leaves SMS Opt-In alone
updateRowOptOut_StatusOnly(sheet, rowNumber, sendResult) ==
  [sheet EXCEPT ![rowNumber] =
     [@ EXCEPT !.SendStatus = "FAILED", !.LastErrorCode = sendResult.errorCode,
               !.LastError = sendResult.errorMessage, !.LastSentAt = <<now>>]]

updateRowOptOut(sheet, rowNumber, sendResult) ==
  [sheet EXCEPT ![rowNumber] =
     [@ EXCEPT !.OptIn = "NO", !.SendStatus = "OPTED_OUT",
               !.LastErrorCode = sendResult.errorCode,
               !.LastError = sendResult.errorMessage, !.LastSentAt = <<now>>]]

\* an updateRowError that also withdraws the opt-in, as updateRowOptOut does
updateRowError_OptOut(sheet, rowNumber, sendResult) ==
  [sheet EXCEPT ![rowNumber] =
     [@ EXCEPT !.OptIn = "NO", !.SendStatus = "FAILED",
               !.LastErrorCode = sendResult.errorCode,
               !.LastError = sendResult.errorMessage, !.LastSentAt = <<now>>]]

updateRowError(sheet, rowNumber, sendResult) ==
  [sheet EXCEPT ![rowNumber] =
     [@ EXCEPT !.SendStatus = "FAILED", !.LastErrorCode = sendResult.errorCode,
               !.LastError = sendResult.errorMessage, !.LastSentAt = <<now>>]]

NoStats ==
  [processed |-> 0, sent |-> 0, skipped |-> 0, failed |-> 0, optedOut |-> 0]

\* processBatch(sheet, allData, columnMap, credentials, startCursor).  Data row
\* r of the roster is allData[r] (allData[0] is the header); `outs` gives the
\* vendor's answer for each row.  The loop reads allData and writes the sheet.
RECURSIVE BatchLoop(_, _, _, _, _)
BatchLoop(allData, credentials, outs, currentRow, acc) ==
  IF ~(currentRow < Len(allData) + 1 /\ acc.stats.processed < BATCH_SIZE) \/ acc.threw
  THEN [acc EXCEPT !.currentRow = currentRow]
  ELSE IF currentRow = 0
  THEN BatchLoop(allData, credentials, outs, currentRow + 1, acc)
  ELSE
    LET rowData == allData[currentRow]
        st == [acc.stats EXCEPT !.processed = @ + 1]
        skip == [acc EXCEPT !.stats = [st EXCEPT !.skipped = @ + 1]]
        res == sendTwilioSMS(rowData.Phone, DEFAULT_MESSAGE, credentials, outs[currentRow])
        reqs == IF res.requested
                THEN Append(acc.reqs, [To |-> rowData.Phone, Body |-> DEFAULT_MESSAGE,
                                       via |-> "sendTwilioSMS", row |-> currentRow,
                                       outcome |-> outs[currentRow]])
                ELSE acc.reqs
        sent ==
          IF res.threw
          THEN [acc EXCEPT !.stats = st, !.reqs = reqs, !.threw = TRUE]
          ELSE IF res.success
          THEN [acc EXCEPT !.stats = [st EXCEPT !.sent = @ + 1], !.reqs = reqs,
                           !.sheet = updateRowSuccess(acc.sheet, currentRow)]
          ELSE IF res.errorCode = Code(OPT_OUT_CODE)
          THEN [acc EXCEPT !.stats = [st EXCEPT !.optedOut = @ + 1], !.reqs = reqs,
                           !.sheet = updateRowOptOut(acc.sheet, currentRow, res)]
          ELSE [acc EXCEPT !.stats = [st EXCEPT !.failed = @ + 1], !.reqs = reqs,
                           !.sheet = updateRowError(acc.sheet, currentRow, res)]
    IN IF rowData.Phone = <<>>
       THEN BatchLoop(allData, credentials, outs, currentRow + 1, skip)
       ELSE IF ~isOptedIn(rowData.OptIn)
       THEN BatchLoop(allData, credentials, outs, currentRow + 1, skip)
       ELSE BatchLoop(allData, credentials, outs, currentRow + 1, sent)

processBatch(sheet, allData, credentials, startCursor, outs) ==
  LET loop == BatchLoop(allData, credentials, outs, startCursor,
                 [sheet |-> sheet, stats |-> NoStats, reqs |-> <<>>, threw |-> FALSE,
                  currentRow |-> startCursor])
      totalRows == Len(allData) + 1
  IN [sheet |-> loop.sheet, stats |-> loop.stats, reqs |-> loop.reqs,
      threw |-> loop.threw,
      hasMore |-> loop.currentRow < totalRows,
      nextCursor |-> IF loop.currentRow < totalRows THEN loop.currentRow ELSE totalRows]

\* what sendBulkSMS leaves behind when it raises `err` before the batch
BulkFail(err) ==
  /\ http' = <<>>
  /\ ret' = [op |-> "sendBulkSMS", err |-> err, stats |-> NoStats, cursor |-> getCursor,
             hasMore |-> FALSE]
  /\ UNCHANGED <<roster, props, headerRow>>

\* the rows a batch starting at the cursor can reach
BatchRows ==
  LET c == getCursor
  IN {r \in 1..Len(roster) : r >= c /\ r < c + BATCH_SIZE}

\* a sendBulkSMS that resets the cursor after every batch, rows left or not
RunBatch_AlwaysReset(cursor, result) ==
  /\ roster' = result.sheet
  /\ headerRow' = ValidatedHeader
  /\ http' = result.reqs
  /\ props' = IF result.threw THEN props ELSE resetCursor(props)
  /\ ret' = [op |-> "sendBulkSMS", err |-> IF result.threw THEN "Exception" ELSE "",
             stats |-> result.stats, cursor |-> cursor, hasMore |-> result.hasMore]

\* lines 68-103: the batch from the cursor on, the cursor saved or reset
RunBatch(cursor, result) ==
  /\ roster' = result.sheet
  /\ headerRow' = ValidatedHeader
  /\ http' = result.reqs
  /\ props' = IF result.threw THEN props
              ELSE IF result.hasMore THEN saveCursor(props, result.nextCursor)
              ELSE resetCursor(props)
  /\ ret' = [op |-> "sendBulkSMS", err |-> IF result.threw THEN "Exception" ELSE "",
             stats |-> result.stats, cursor |-> cursor, hasMore |-> result.hasMore]

sendBulkSMS ==
  /\ sync.pc = "idle"
  /\ IF ~getTwilioCredentials.isValid
     THEN BulkFail("Invalid Twilio credentials: " \o getTwilioCredentials.error)
     ELSE IF validateColumns # ""
     THEN BulkFail(validateColumns)
     ELSE IF Len(roster) = 0
     THEN /\ http' = <<>>
          /\ ret' = [op |-> "sendBulkSMS", err |-> "", stats |-> NoStats,
                     cursor |-> getCursor, hasMore |-> FALSE]
          /\ headerRow' = ValidatedHeader
          /\ UNCHANGED <<roster, props>>
     ELSE \E outs \in [BatchRows -> Outcomes] :
            \E result \in {processBatch(roster, roster, getTwilioCredentials,
                                        getCursor, outs)} :
              RunBatch(getCursor, result)
  /\ UNCHANGED <<responses, attendance, smsLog, config, userProps, now, sync, stopped>>

resetBulkSMSCursor ==
  /\ sync.pc = "idle"
  /\ props' = resetCursor(props)
  /\ http' = <<>>
  /\ ret' = [op |-> "resetBulkSMSCursor"]
  /\ UNCHANGED <<roster, responses, attendance, smsLog, config, headerRow, userProps, now, sync,
                 stopped>>

\* sendBulkSMS ended by the host (execution time limit) inside processBatch:
\* the loop finished the rows up to m (m = cursor - 1: none), and with
\* `pending` the request of row m + 1 went out and its outcome was not
\* written.  The cursor is saved only after the loop (lines 237-247), so the
\* property is left as it was.
sendBulkSMSCutOff ==
  /\ sync.pc = "idle"
  /\ getTwilioCredentials.isValid
  /\ validateColumns = ""
  /\ Len(roster) > 0
  /\ \E m \in {getCursor - 1} \cup BatchRows, pending \in BOOLEAN :
       /\ pending => /\ m + 1 \in BatchRows
                      /\ roster[m + 1].Phone # <<>>
                      /\ isOptedIn(roster[m + 1].OptIn)
       /\ \E outs \in [BatchRows -> Outcomes] :
            \E result \in {processBatch(roster, SubSeq(roster, 1, m),
                                        getTwilioCredentials, getCursor, outs)} :
              /\ roster' = result.sheet
              /\ headerRow' = ValidatedHeader
              /\ http' = IF pending
                         THEN Append(result.reqs,
                                [To |-> roster[m + 1].Phone, Body |-> DEFAULT_MESSAGE,
                                 via |-> "sendTwilioSMS", row |-> m + 1,
                                 outcome |-> outs[m + 1]])
                         ELSE result.reqs
              /\ ret' = [op |-> "sendBulkSMSCutOff",
                         err |-> "Exceeded maximum execution time",
                         stats |-> result.stats, cursor |-> getCursor,
                         hasMore |-> FALSE, pending |-> pending]
  /\ UNCHANGED <<responses, attendance, smsLog, props, config, userProps, now, sync,
                 stopped>>

Next ==
  \/ \E row \in FormRows : SubmitForm(row)
  \/ SyncStart
  \/ \E o \in Outcomes : SyncRow(o)
  \/ \E o \in Outcomes, stage \in CutStages : SyncRowCutOff(o, stage)
  \/ \E p \in Payloads : doPost(p)
  \/ \E c \in {"secret", "guess"} : uiCheckPass(c)
  \/ Tick
  \/ \E p \in SendPayloads : uiSend(p)
  \/ sendBulkToOptedIn_(BulkMessage)
  \/ sendReminderForEvent_("E1")
  \/ resendFailures_
  \/ sendBulkSMS
  \/ sendBulkSMSCutOff
  \/ resetBulkSMSCursor

Spec == Init /\ [][Next]_vars

-----------------------------------------------------------------------------
(* The parts of the system taken one at a time *)

Quiet ==
  /\ responses = <<>>
  /\ smsLog = [header |-> "none", rows |-> <<>>]
  /\ headerRow = FullHeader
  /\ userProps = [SMS_AUTH_HASH |-> "", SMS_AUTH_TIME |-> 0]
  /\ now = 0
  /\ sync = SyncIdle
  /\ http = <<>>
  /\ ret = [op |-> "init"]
  /\ stopped = {}

\* form submissions and sync passes
InitSync ==
  /\ Quiet
  /\ attendance = <<>>
  /\ roster \in InitRosters
  /\ props \in InitProps
  /\ config = [SHEET_NAME |-> ""]

NextSync ==
  \/ \E row \in FormRows : SubmitForm(row)
  \/ SyncStart
  \/ \E o \in Outcomes : SyncRow(o)

SpecSync == InitSync /\ [][NextSync]_vars

\* the inbound webhook alone, over a wider range of calls
RowC(opt) ==
  [BlankRow EXCEPT !.JoinDate = "9/3/2025", !.StudentName = "Cy",
                   !.CampusEmail = "c@x.edu", !.Phone = PB, !.OptIn = opt]
RowD(opt) ==
  [BlankRow EXCEPT !.JoinDate = "9/4/2025", !.StudentName = "Dee",
                   !.Email = "d@mail.com", !.OptIn = opt]

InboundRosters ==
  { <<>>,
    <<RowA("Yes"), RowB("Yes")>>,
    <<RowA("No"), RowC("Yes"), RowB("?")>>,
    <<RowD("Yes"), RowC("No"), RowA("Yes")>> }

InboundPayloads ==
  { Payload(from, body, "") :
      from \in {PA_E164, PA_FORMATTED, <<"+", "1">> \o PB, <<>>},
      body \in {" stop ", "unsubscribe", "QUIT", "START", "start", "ping", "stop please"} }
  \cup { Payload(PA_E164, "", "delivered"), Payload(PA_E164, "START", "delivered") }

InitInbound ==
  /\ Quiet
  /\ attendance = <<>>
  /\ roster \in InboundRosters
  /\ props = BaseProps
  /\ config = [SHEET_NAME |-> ""]

NextInbound == \E p \in InboundPayloads : doPost(p)

SpecInbound == InitInbound /\ [][NextInbound]_vars

\* the composer, the menu sends and the retry, with the webhook and the
\* passcode session
AttendanceE1 ==
  << [EventID |-> "E1", CampusEmail |-> "a@x.edu"],
     [EventID |-> "E1", CampusEmail |-> "b@x.edu"] >>

InitSend ==
  /\ Quiet
  /\ attendance = AttendanceE1
  /\ roster \in {<<RowA("Yes")>>, <<RowA("Yes"), RowC("No")>>}
  /\ props \in {BaseProps, [BaseProps EXCEPT !.SMS_DRY_RUN = "TRUE"], PassProps}
  /\ config = [SHEET_NAME |-> ""]

NextSend ==
  \/ \E p \in Payloads : doPost(p)
  \/ \E c \in {"secret", "guess"} : uiCheckPass(c)
  \/ Tick
  \/ uiSend(AttendeesPayload)
  \/ resendFailures_

SpecSend == InitSend /\ [][NextSend]_vars

\* the batch sends: the composer and menu loops and the cursor batch sender
AttendanceAll ==
  Append(AttendanceE1, [EventID |-> "E1", CampusEmail |-> "c@x.edu"])

BatchRosters ==
  { <<RowA("Yes"), RowB("Yes")>>,
    <<RowA("Yes"), RowD("Yes"), RowC("YES")>> }

InitBatch ==
  /\ Quiet
  /\ attendance = AttendanceAll
  /\ roster \in BatchRosters
  /\ props \in InitProps
  /\ config \in InitConfigs

NextBatch ==
  \/ \E p \in SendPayloads : uiSend(p)
  \/ sendBulkToOptedIn_(BulkMessage)
  \/ sendReminderForEvent_("E1")
  \/ sendBulkSMS
  \/ resetBulkSMSCursor

SpecBatch == InitBatch /\ [][NextBatch]_vars

-----------------------------------------------------------------------------
(* Properties *)

\* C1: a submission whose identity key (key field and normalized value) is
\* already carried by a roster row never inserts a second row: a sync step
\* that appends a row finds no earlier row filed under the submission's key.
C1_NoSecondInsert ==
  (ret.op = "syncRow" /\ ret.kind = "insert") =>
    ~\E i \in 1..(ret.rowNumber - 1) :
        /\ RowIndexKey(roster[i]).name # ""
        /\ SameKey(RowIndexKey(roster[i]), ret.key)

\* the roster rows whose phone has digits equal to the digits of `from`
\* (leading US 1 dropped)
RowsOfSender(from) ==
  {i \in 1..Len(roster) :
     /\ StripNonDigits(roster[i].Phone) # <<>>
     /\ normalizePhoneDigits_(roster[i].Phone) = normalizePhoneDigits_(from)}

EmptyEnvelope == [mime |-> "XML", Response |-> <<>>]

KeywordOf(p) == ToUpperCase(Trim(p.Body))

C3_NoSendAfterStop ==
  \A i \in 1..Len(http) : normalizePhoneDigits_(http[i].To) \notin stopped

\* C4: a step changes a roster row's SMS Opt-In to an affirmative value only
\* when it handles a submission with the checkbox set for that row or an
\* inbound START from the row's phone, to a negative value only when it
\* handles an inbound STOP-class keyword from that phone or a 21610 rejection
\* of a send to that row, and to no other value.
OptInChangeAllowed(i) ==
  LET new == ToLowerCase(roster'[i].OptIn)
  IN \/ /\ new = "yes"
        /\ \/ ret'.op = "syncRow" /\ ret'.kind = "update" /\ ret'.rowNumber = i
              /\ ret'.optYes
           \/ ret'.op = "doPost" /\ KeywordOf(ret'.p) = "START"
              /\ normalizePhoneDigits_(roster[i].Phone) = normalizePhoneDigits_(ret'.p.From)
     \/ /\ new = "no"
        /\ \/ ret'.op = "doPost" /\ KeywordOf(ret'.p) \in STOP_WORDS
              /\ normalizePhoneDigits_(roster[i].Phone) = normalizePhoneDigits_(ret'.p.From)
           \/ ret'.op = "sendBulkSMS"
              /\ \E k \in 1..Len(http') : http'[k].row = i /\ http'[k].outcome = "r21610"

C4_OptInChanges ==
  [][\A i \in 1..Len(roster) :
       roster'[i].OptIn # roster[i].OptIn => OptInChangeAllowed(i)]_vars

\* the data rows a batch of sendBulkSMS that started at `cursor` goes through
BulkWindow(cursor) ==
  {r \in 1..Len(roster) : r >= cursor /\ r < cursor + BATCH_SIZE}

\* the requests of the latest step that the vendor rejected with 21610
Rejected21610 == {k \in 1..Len(http) : http[k].outcome = "r21610"}

\* C5: in processBatch a send answered with error code 21610 leaves the row
\* with a negative opt-in, status OPTED_OUT, the error code, the vendor's
\* message and a timestamp; the opted-out count is the number of such
\* answers; and the loop goes on: every row of the batch window is processed.
C5_OptOutRecorded ==
  ret.op = "sendBulkSMS" =>
    /\ \A k \in Rejected21610 :
         /\ roster[http[k].row].OptIn = "NO"
         /\ ~isOptedIn(roster[http[k].row].OptIn)
         /\ roster[http[k].row].SendStatus = "OPTED_OUT"
         /\ roster[http[k].row].LastErrorCode = Code(OPT_OUT_CODE)
         /\ roster[http[k].row].LastError = Vendor("r21610").message
         /\ roster[http[k].row].LastSentAt = <<now>>
    /\ ret.stats.optedOut = Cardinality(Rejected21610)
    /\ Rejected21610 # {} =>
         /\ ret.err = ""
         /\ ret.stats.processed = Cardinality(BulkWindow(ret.cursor))
         /\ ret.stats.processed = Len(http) + ret.stats.skipped

\* C5 witness: a batch whose first send was rejected with 21610 and which
\* then sent to a later row
C5_Witness ==
  /\ ret.op = "sendBulkSMS"
  /\ Len(http) = 2
  /\ http[1].outcome = "r21610"
  /\ http[2].row > http[1].row

\* C6: once a request of a batch has been rejected with 21610, a roster row
\* with that phone number has a negative opt-in when the batch returns, and
\* no later request of the same batch goes to that number.
C6_NoAttemptAfter21610 ==
  \A k \in Rejected21610 :
    /\ \E i \in 1..Len(roster) :
         /\ normalizePhoneDigits_(roster[i].Phone) = normalizePhoneDigits_(http[k].To)
         /\ ToLowerCase(Trim(roster[i].OptIn)) = "no"
    /\ \A j \in (k + 1)..Len(http) :
         normalizePhoneDigits_(http[j].To) # normalizePhoneDigits_(http[k].To)

SendOps == {"uiSend", "sendBulkToOptedIn_", "sendReminderForEvent_"}

C8_MissingSetupStopsBatch ==
  ( /\ ~getTwilioCredentials.isValid
    /\ \/ ret.op = "sendBulkSMS"
       \/ ret.op \in {"uiSend", "sendBulkToOptedIn_"} /\ ret.audience # <<>> )
  => /\ ret.err # ""
     /\ http = <<>>
     /\ ret.op # "sendBulkSMS" => ret.done = <<>>

\* C9: while SMS_DRY_RUN is 'true' no request goes to the vendor, and every
\* outbound row of the log is a DRYRUN row whose body starts with '[DRY RUN] '.
C9_DryRunNoRequest ==
  isDryRun_ =>
    /\ http = <<>>
    /\ \A i \in 1..Len(smsLog.rows) :
         smsLog.rows[i].kind = "OUT" =>
           /\ smsLog.rows[i].SID = "DRYRUN"
           /\ Head(smsLog.rows[i].Body) = "[DRY RUN] "

\* C10: a request goes to the vendor only when the caller passes the admin
\* check and, if a passcode is configured, holds a valid passcode session.
C10_SendsBehindGates ==
  http # <<>> => isAdmin_ /\ PassOk

\* the send attempts of the latest step: its requests to the vendor, or in
\* dry-run mode the recipients its loop handled
Attempts ==
  IF ret.op \in SendOps \cup {"resendFailures_"} /\ isDryRun_ THEN Len(ret.done)
  ELSE Len(http)

\* C11: every send attempt appends exactly one row to the SMS Log, whatever
\* its outcome: a step adds as many outbound rows as it made attempts.
C11_OneLogRowPerAttempt ==
  [][LogRows("OUT")' = LogRows("OUT") + Attempts']_vars

\* the roster rows of the person a sync step dealt with: the row it updated
\* and the rows filed under the submission's identity key
RowsOfSubmission(i) ==
  \/ ret'.kind = "update" /\ i = ret'.rowNumber
  \/ RowIndexKey(roster[i]).name # "" /\ SameKey(RowIndexKey(roster[i]), ret'.key)

\* C12: a sync step sends the welcome SMS only when the person's opt-in goes
\* from a non-affirmative value to 'Yes': a submission for a person whose
\* roster opt-in is already 'Yes' sends none.
C12_WelcomeOnlyOnTransition ==
  [][(ret'.op = "syncRow" /\ http' # <<>>) =>
       \A i \in 1..Len(roster) :
         RowsOfSubmission(i) => ToLowerCase(roster[i].OptIn) # "yes"]_vars

\* sync passes over a roster whose row has cells still blank
RowE ==
  [BlankRow EXCEPT !.JoinDate = "9/5/2025", !.CampusEmail = "a@x.edu", !.OptIn = "?"]

InitMerge ==
  /\ Quiet
  /\ attendance = <<>>
  /\ roster \in {<<RowE>>, <<RowA("No")>>, <<RowE, RowB("Yes")>>}
  /\ props \in {BaseProps, [BaseProps EXCEPT !.TWILIO_AUTH_TOKEN = ""]}
  /\ config = [SHEET_NAME |-> ""]

SpecMerge == InitMerge /\ [][NextSync]_vars

\* C13: a matched submission never replaces a non-empty cell of the roster
\* row by an empty one, whether the value was stored before the pass or
\* written by an earlier submission of the same pass.
C13_NoValueErased ==
  [][(ret'.op = "syncRow" /\ ret'.kind = "update") =>
       \A k \in DOMAIN AliasOf :
         ~IsBlank(k, roster[ret'.rowNumber][k]) => ~IsBlank(k, roster'[ret'.rowNumber][k])]_vars

\* mergeRecords_ on its own: stored records and incoming records with every
\* combination of blank and filled cells
MergeExisting ==
  { [BlankRow EXCEPT !.JoinDate = j, !.StudentName = n, !.Phone = p, !.OptIn = o,
                     !.CampusEmail = "a@x.edu"] :
      j \in {"", "9/1/2025"}, n \in {"", "Ann Lee"}, p \in {<<>>, PA},
      o \in {"", "No", "Yes"} }

MergeIncoming ==
  { [JoinDate |-> j, StudentName |-> n, Email |-> "", CampusEmail |-> c,
     Phone |-> p, OptIn |-> o] :
      j \in {"", "9/9/2025"}, n \in {"", "Bo"}, c \in {"", "a@x.edu"},
      p \in {<<>>, PB}, o \in {"", "Yes"} }

InitMergeFn ==
  /\ Quiet
  /\ attendance = <<>>
  /\ roster \in { <<e>> : e \in MergeExisting }
  /\ props = BaseProps
  /\ config = [SHEET_NAME |-> ""]

MergeCall(incoming) ==
  /\ ret' = [op |-> "mergeRecords_", existing |-> roster[1], incoming |-> incoming,
             merged |-> mergeRecords_(roster[1], incoming)]
  /\ UNCHANGED <<roster, responses, attendance, smsLog, props, config, headerRow, userProps, now,
                 sync, http, stopped>>

NextMergeFn == \E incoming \in MergeIncoming : MergeCall(incoming)

SpecMergeFn == InitMergeFn /\ [][NextMergeFn]_vars

\* C14: mergeRecords_(existing, incoming) keeps existing's Join Date, takes
\* for every other field the incoming value when it is non-empty and the
\* existing value otherwise, and returns existing when incoming is all empty.
C14_MergeLaw ==
  ret.op = "mergeRecords_" =>
    /\ DOMAIN ret.merged = DOMAIN ret.existing
    /\ ret.merged.JoinDate = ret.existing.JoinDate
    /\ \A k \in {"StudentName", "Email", "CampusEmail", "OptIn"} :
         ret.merged[k] = IF ret.incoming[k] # "" THEN ret.incoming[k] ELSE ret.existing[k]
    /\ ret.merged.Phone =
         IF ret.incoming.Phone # <<>> THEN ret.incoming.Phone ELSE ret.existing.Phone
    /\ \A k \in {"LastSentAt", "LastErrorCode", "LastError", "SendStatus"} :
         ret.merged[k] = ret.existing[k]
    /\ ( /\ \A k \in {"JoinDate", "StudentName", "Email", "CampusEmail", "OptIn"} :
              ret.incoming[k] = ""
         /\ ret.incoming.Phone = <<>> ) => ret.merged = ret.existing

\* C14 witness: a merge of a record holding a join date, a name and a phone
\* with an incoming record that has another join date and phone and no name
C14_Witness ==
  /\ ret.op = "mergeRecords_"
  /\ ret.existing.JoinDate # "" /\ ret.incoming.JoinDate # ""
  /\ ret.existing.StudentName # "" /\ ret.incoming.StudentName = ""
  /\ ret.existing.Phone # <<>> /\ ret.incoming.Phone # <<>>

\* a response row with nothing in Campus Email, Email and Phone #
NoIdentity(row) == row.CampusEmail = "" /\ row.Email = "" /\ row.Phone = <<>>

\* C15: a sync step for a submission without any identity value marks the
\* response processed and changes nothing else: roster, attendance and SMS Log
\* stay as they are and no request is issued.
C15_NoKeyOnlyMarked ==
  [][(ret'.op = "syncRow" /\ NoIdentity(responses[ret'.r])) =>
       /\ roster' = roster
       /\ attendance' = attendance
       /\ smsLog' = smsLog
       /\ http' = <<>>
       /\ responses' = [responses EXCEPT ![ret'.r].Processed = "YES"]]_vars

\* C15 witness: a submission without identity, with an event id and the
\* opt-in box checked, has been handled while the roster holds rows
C15_Witness ==
  /\ ret.op = "syncRow"
  /\ NoIdentity(responses[ret.r])
  /\ responses[ret.r].EventID # "" /\ responses[ret.r].OptIn # ""
  /\ ToLowerCase(responses[ret.r].Processed) = "yes"
  /\ roster # <<>>

\* sync passes over event check-ins: the same pair twice, event ids that differ
\* in case or in padding, and a person known by a personal email only
AttendFormRows ==
  { FormRow("9/9/2025", "Ann Lee", "a@x.edu", "", PA, "", "E1"),
    FormRow("9/9/2025", "", "A@X.EDU", "", <<>>, "", " E1 "),
    FormRow("9/9/2025", "Ann Lee", "a@x.edu", "", <<>>, "", "e1"),
    FormRow("9/9/2025", "Cy", "", "c@mail.com", PB, "", "E1"),
    FormRow("9/9/2025", "Bo", "b@x.edu", "", <<>>, "", "") }

InitAttend ==
  /\ Quiet
  /\ attendance \in {<<>>, <<[EventID |-> "E1", CampusEmail |-> "A@X.EDU"]>>}
  /\ roster \in {<<>>, <<RowA("Yes")>>, <<RowA("Yes"), RowB("Yes")>>}
  /\ props = BaseProps
  /\ config = [SHEET_NAME |-> ""]

NextAttend ==
  \/ \E row \in AttendFormRows : SubmitForm(row)
  \/ SyncStart
  \/ \E o \in Outcomes : SyncRow(o)

SpecAttend == InitAttend /\ [][NextAttend]_vars

\* the (event id, identity) pair of an attendance fact
FactPair(a) == [event |-> Trim(a.EventID), who |-> ToLowerCase(Trim(a.CampusEmail))]

\* C16: the attendance sheet holds at most one fact per (event id, identity)
\* pair, event ids compared exactly and identities without regard to case.
C16_OneFactPerPair ==
  \A i, j \in 1..Len(attendance) :
    i # j => FactPair(attendance[i]) # FactPair(attendance[j])

\* C16 witness: a pass has handled two submissions for the same event and
\* the same campus email, written in different case, and the pair has a fact
C16_Witness ==
  /\ sync.pc = "idle"
  /\ \E r1, r2 \in 1..Len(responses) :
       /\ r1 # r2
       /\ responses[r1].Processed = "YES" /\ responses[r2].Processed = "YES"
       /\ Trim(responses[r1].EventID) = "E1" /\ Trim(responses[r2].EventID) = "E1"
       /\ responses[r1].CampusEmail = "a@x.edu" /\ responses[r2].CampusEmail = "A@X.EDU"
  /\ \E i \in 1..Len(attendance) : FactPair(attendance[i]) = [event |-> "E1", who |-> "a@x.edu"]

\* the index key a response row resolves to
SubmissionKey(row) ==
  makeIndexKey_(inferMatchKey_(BuildIncoming(row)),
                firstNonEmpty_(BuildIncoming(row).CampusEmail, BuildIncoming(row).Email,
                               BuildIncoming(row).Phone))

\* C17: once a pass has finished, every processed submission with an event id
\* that resolved to a person, whichever identity key it resolved by, has an
\* attendance fact for that event and that person.
C17_FactForEveryCheckIn ==
  sync.pc = "idle" =>
    \A r \in 1..Len(responses) :
      ( /\ ToLowerCase(responses[r].Processed) = "yes"
        /\ Trim(responses[r].EventID) # ""
        /\ inferMatchKey_(BuildIncoming(responses[r])) # "" )
      => \E a \in 1..Len(attendance), i \in 1..Len(roster) :
           /\ Trim(attendance[a].EventID) = Trim(responses[r].EventID)
           /\ RowIndexKey(roster[i]).name # ""
           /\ SameKey(RowIndexKey(roster[i]), SubmissionKey(responses[r]))
           /\ ToLowerCase(Trim(roster[i].CampusEmail)) # ""
           /\ ToLowerCase(Trim(attendance[a].CampusEmail))
                = ToLowerCase(Trim(roster[i].CampusEmail))

-----------------------------------------------------------------------------
(* The cursor of sendBulkSMS over a whole pass *)

\* rosters long enough for a pass of several batches: one row, four rows of
\* which one has no phone, five rows of which two can be sent to
PassRosters ==
  { <<RowA("Yes")>>,
    <<RowA("Yes"), RowD("Yes"), RowC("YES"), RowB("Yes")>>,
    <<RowA("Yes"), RowB("No"), RowD("Yes"), RowC("Yes"), RowD("No")>> }

InitPass ==
  /\ Quiet
  /\ attendance = <<>>
  /\ roster \in PassRosters
  /\ props = BaseProps
  /\ config = [SHEET_NAME |-> "Student Database"]

NextPass ==
  \/ sendBulkSMS
  \/ resetBulkSMSCursor

SpecPass == InitPass /\ [][NextPass]_vars

\* processBatch sends to a row that has a phone and an affirmative opt-in
Eligible(row) == row.Phone # <<>> /\ isOptedIn(row.OptIn)

\* the last row a run processed: the loop advances one row per processed row
LastProcessed(r) == r.cursor + r.stats.processed - 1

\* C18: a sendBulkSMS run that starts with the saved cursor at N reports N as
\* its start, leaves every row below N as it was, goes through rows
\* N .. N + processed - 1 in ascending order without a gap (a request for each
\* row of the range that can be sent to, none for any other row, no row past
\* the range written), and, when the run before it ended with rows left and
\* the cursor was not reset in between, starts after the last row that run
\* processed.
C18_ResumeFromCursor ==
  [][(ret'.op = "sendBulkSMS" /\ ret'.err = "") =>
       LET N == getCursor
           last == LastProcessed(ret')
       IN /\ ret'.cursor = N
          /\ \A i \in 1..Len(roster) : (i < N \/ i > last) => roster'[i] = roster[i]
          /\ \A k \in 1..Len(http') :
               /\ http'[k].row >= N /\ http'[k].row <= last
               /\ k > 1 => http'[k - 1].row < http'[k].row
          /\ \A i \in 1..Len(roster) :
               (i >= N /\ i <= last /\ Eligible(roster[i]))
                 <=> (\E k \in 1..Len(http') : http'[k].row = i)
          /\ (ret.op = "sendBulkSMS" /\ ret.hasMore) => N > LastProcessed(ret)
    ]_vars

\* C18 witness: a run resumed past the first row, sent to a row, and a row
\* below its start still carries the status an earlier run wrote
C18_Witness ==
  /\ ret.op = "sendBulkSMS"
  /\ ret.err = ""
  /\ ret.cursor > 1
  /\ Len(http) >= 1
  /\ \E i \in 1..Len(roster) : i < ret.cursor /\ roster[i].SendStatus # ""

\* C19: the saved cursor changes to another saved position only in a
\* sendBulkSMS run and only upwards; it is cleared only by resetBulkSMSCursor
\* or by a run whose last processed row is the last row of the roster; and a
\* run that ends with rows left saves the row after its last processed row.
C19_CursorOnlyAdvances ==
  [][LET c == props.BULK_SMS_CURSOR
         d == props'.BULK_SMS_CURSOR
     IN /\ (d # c /\ d # 0) => (ret'.op = "sendBulkSMS" /\ d > getCursor)
        /\ (d # c /\ d = 0) =>
             \/ ret'.op = "resetBulkSMSCursor"
             \/ ret'.op = "sendBulkSMS" /\ LastProcessed(ret') >= Len(roster)
        /\ (ret'.op = "sendBulkSMS" /\ ret'.err = ""
              /\ LastProcessed(ret') < Len(roster)) =>
             (d = LastProcessed(ret') + 1 /\ d # 0 /\ ret'.hasMore)
    ]_vars

\* C19 witness: the cursor was saved by a run that itself resumed from a
\* saved cursor
C19_Witness ==
  /\ ret.op = "sendBulkSMS"
  /\ ret.hasMore
  /\ ret.cursor > 1
  /\ props.BULK_SMS_CURSOR > ret.cursor

CeilDiv(a, b) == (a + b - 1) \div b

\* the number of a run within its pass: the k-th run starts at (k-1)*BATCH_SIZE + 1
RunNumber(r) == (r.cursor - 1) \div BATCH_SIZE + 1

-----------------------------------------------------------------------------
(* sendBulkSMS runs that the host ends before the batch is over *)

NextCut ==
  \/ sendBulkSMS
  \/ sendBulkSMSCutOff
  \/ resetBulkSMSCursor

SpecCut == InitPass /\ [][NextCut]_vars

\* the requests of the latest step whose answer processBatch wrote to the row
Written(h, r) ==
  {k \in 1..Len(h) : ~(r.op = "sendBulkSMSCutOff" /\ r.pending /\ k = Len(h))}

\* the status processBatch writes for a vendor answer
StatusOf(outcome) ==
  IF outcome = "ok" THEN "SENT"
  ELSE IF outcome = "r21610" THEN "OPTED_OUT" ELSE "FAILED"

\* C21: a sendBulkSMS run ended by the host anywhere in its batch leaves the
\* saved cursor as it was, leaves in the roster the status and time of every
\* row whose answer it had received and written, and changes no other row;
\* the run after it starts from the same cursor, so it starts at or before
\* every row the ended run attempted, and when it runs to the end of its batch
\* it processes every row the ended run attempted (rows may be attempted
\* twice); rows outside a run's range keep what was written to them.
C21_CutOffRunResumes ==
  [][/\ ret'.op = "sendBulkSMSCutOff" =>
          /\ props' = props
          /\ \A k \in Written(http', ret') :
               /\ roster'[http'[k].row].SendStatus = StatusOf(http'[k].outcome)
               /\ roster'[http'[k].row].LastSentAt = <<now>>
          /\ \A i \in 1..Len(roster) :
               (\A k \in Written(http', ret') : http'[k].row # i)
                 => roster'[i] = roster[i]
     /\ (ret.op = "sendBulkSMSCutOff"
           /\ ret'.op \in {"sendBulkSMS", "sendBulkSMSCutOff"}) =>
          /\ ret'.cursor = ret.cursor
          /\ ret'.cursor = getCursor
          /\ \A k \in 1..Len(http) : http[k].row >= ret'.cursor
          /\ \A i \in 1..Len(roster) :
               (i < ret'.cursor \/ i > LastProcessed(ret')) => roster'[i] = roster[i]
          /\ ret'.op = "sendBulkSMS" =>
               /\ ret'.err = ""
               /\ \A k \in 1..Len(http) : http[k].row <= LastProcessed(ret')
               /\ LastProcessed(ret') >= LastProcessed(ret)
               /\ IF LastProcessed(ret') < Len(roster)
                  THEN props'.BULK_SMS_CURSOR = LastProcessed(ret') + 1
                  ELSE props'.BULK_SMS_CURSOR = 0
    ]_vars

\* C21 witness: a run resumed from a saved cursor was ended after it had
\* written one row's outcome and sent the next row's request
C21_Witness ==
  /\ ret.op = "sendBulkSMSCutOff"
  /\ ret.pending
  /\ ret.cursor > 1
  /\ props.BULK_SMS_CURSOR = ret.cursor
  /\ Len(http) >= 2
  /\ roster[http[1].row].SendStatus = StatusOf(http[1].outcome)

-----------------------------------------------------------------------------
(* resolveAudience_ as a function of the two sheets *)

RowP ==
  [BlankRow EXCEPT !.JoinDate = "9/6/2025", !.StudentName = "Pat",
                   !.Email = "p@mail.com", !.Phone = PB, !.OptIn = "Yes"]
RowN ==
  [BlankRow EXCEPT !.JoinDate = "9/7/2025", !.StudentName = "Bo",
                   !.CampusEmail = "b@x.edu", !.OptIn = "Yes"]

\* roster rows of the audience check: opted in, not asked, declined, upper
\* case, without campus email, without phone
AudienceRows ==
  { RowA("Yes"), RowA("?"), RowB("No"), RowC("YES"), RowP, RowN }

\* rosters of up to two of these rows; two rows for one campus email is what
\* two submissions of a new person in one pass leave behind
AudienceRosters ==
  {<<>>} \cup {<<r>> : r \in AudienceRows}
         \cup {<<r, q>> : r \in AudienceRows, q \in AudienceRows}

AudienceAttendance ==
  { <<>>,
    AttendanceE1,
    << [EventID |-> "E1", CampusEmail |-> "a@x.edu"],
       [EventID |-> " E1 ", CampusEmail |-> "A@X.EDU"],
       [EventID |-> "E1", CampusEmail |-> "c@x.edu"] >>,
    << [EventID |-> "E2", CampusEmail |-> "a@x.edu"],
       [EventID |-> "E1", CampusEmail |-> "b@x.edu"],
       [EventID |-> "E1", CampusEmail |-> "b@x.edu"] >> }

InitAudience ==
  /\ Quiet
  /\ attendance \in AudienceAttendance
  /\ roster \in AudienceRosters
  /\ props = BaseProps
  /\ config = [SHEET_NAME |-> ""]

ResolveCall(eventId, audienceKey) ==
  /\ ret' = [op |-> "resolveAudience_", eventId |-> eventId,
             audienceKey |-> audienceKey,
             people |-> resolveAudience_(eventId, audienceKey)]
  /\ UNCHANGED <<roster, responses, attendance, smsLog, props, config, headerRow, userProps, now,
                 sync, http, stopped>>

NextAudience ==
  \E eventId \in {"E1", "E2"}, audienceKey \in {"attendees", "alloptedin"} :
    ResolveCall(eventId, audienceKey)

SpecAudience == InitAudience /\ [][NextAudience]_vars

\* a roster record a message may go to: opt-in "yes" in any case, a phone
Reachable(row) == ToLowerCase(row.OptIn) = "yes" /\ row.Phone # <<>>

Identity(row) == ToLowerCase(Trim(row.CampusEmail))

\* the identities with an attendance fact for the event
AttendeesOf(eventId) ==
  { ToLowerCase(Trim(attendance[a].CampusEmail)) :
      a \in {x \in 1..Len(attendance) : Trim(attendance[x].EventID) = Trim(eventId)} }
    \ {""}

\* C22: resolveAudience_(eventId, 'attendees') lists no identity twice, and
\* an identity is listed exactly when it has an attendance fact for the event
\* and a roster record of that identity has an affirmative opt-in and a phone;
\* the phone listed is that of such a record.
C22_AttendeesExactlyOnce ==
  (ret.op = "resolveAudience_" /\ ret.audienceKey = "attendees") =>
    /\ \A j, k \in 1..Len(ret.people) :
         j # k => ret.people[j].campusEmail # ret.people[k].campusEmail
    /\ \A ce \in AttendeesOf(ret.eventId) \cup {ret.people[k].campusEmail :
                                                   k \in 1..Len(ret.people)} :
         (\E k \in 1..Len(ret.people) : ret.people[k].campusEmail = ce)
           <=> /\ ce \in AttendeesOf(ret.eventId)
               /\ \E i \in 1..Len(roster) : Identity(roster[i]) = ce /\ Reachable(roster[i])
    /\ \A k \in 1..Len(ret.people) :
         \E i \in 1..Len(roster) :
           /\ Identity(roster[i]) = ret.people[k].campusEmail
           /\ Reachable(roster[i])
           /\ roster[i].Phone = ret.people[k].phone

\* C23: resolveAudience_(_, 'alloptedin') lists a person for every roster
\* record with an affirmative opt-in and a phone, and every person listed is
\* such a record.
C23_AllOptedInExactly ==
  (ret.op = "resolveAudience_" /\ ret.audienceKey = "alloptedin") =>
    /\ \A i \in 1..Len(roster) :
         Reachable(roster[i]) =>
           \E k \in 1..Len(ret.people) : ret.people[k].phone = roster[i].Phone
    /\ \A k \in 1..Len(ret.people) :
         \E i \in 1..Len(roster) :
           /\ Reachable(roster[i])
           /\ Identity(roster[i]) = ret.people[k].campusEmail
           /\ roster[i].Phone = ret.people[k].phone

-----------------------------------------------------------------------------
(* The passcode session *)

InitSession ==
  /\ Quiet
  /\ attendance = AttendanceE1
  /\ roster \in {<<RowA("Yes")>>, <<RowA("No")>>}
  /\ props \in {BaseProps, PassProps}
  /\ config = [SHEET_NAME |-> ""]

NextSession ==
  \/ \E c \in {"secret", "guess"} : uiCheckPass(c)
  \/ uiNeedsPass
  \/ \E hash \in {"", "hash1", "hash0"} : SetPassHash(hash)
  \/ Elapse
  \/ uiSend(AttendeesPayload)

SpecSession == InitSession /\ [][NextSession]_vars

\* the session left by a successful uiCheckPass is
\* good for the configured hash at the present time of the state
SessionGood(session) ==
  /\ session.SMS_AUTH_HASH = passHash_
  /\ now - session.SMS_AUTH_TIME < SESSION_TTL_MS

-----------------------------------------------------------------------------
(* The webhook over every kind of payload *)

\* the calls of InboundPayloads, an empty payload, HELP, other text, and
\* status callbacks that carry a keyword
WebhookPayloads ==
  InboundPayloads
    \cup { Payload(<<>>, "", ""), Payload(PA_E164, "HELP", ""),
           Payload(PA_E164, "hello", ""), Payload(PA_E164, " stop ", "sent"),
           Payload(<<"+", "1">> \o PB, "PING", "delivered") }

NextWebhook == \E p \in WebhookPayloads : doPost(p)

SpecWebhook == InitInbound /\ [][NextWebhook]_vars

\* C25: in every doPost the log keeps its rows and the first row added is the
\* inbound record of the payload (From, trimmed Body, MessageStatus,
\* MessageSid); every further row of the call is a SYSTEM row, so the record
\* of the roster update, when there is one, comes after it; the reply is
\* returned by the same call.
C25_InboundLoggedFirst ==
  [][ret'.op = "doPost" =>
       LET n == Len(smsLog.rows)
           p == ret'.p
       IN /\ Len(smsLog'.rows) = n + ret'.logged
          /\ ret'.logged >= 1
          /\ SubSeq(smsLog'.rows, 1, n) = smsLog.rows
          /\ smsLog'.rows[n + 1]
               = InRow(p.From, Trim(p.Body), p.MessageStatus, p.MessageSid)
          /\ \A k \in (n + 2)..Len(smsLog'.rows) : smsLog'.rows[k].From = SYSTEM
          /\ roster' # roster => Len(smsLog'.rows) > n + 1
    ]_vars

\* C25 witness: a STOP changed the roster; the last two log rows are the
\* inbound record and, after it, the SYSTEM record of the update
C25_Witness ==
  /\ ret.op = "doPost"
  /\ ret.logged = 2
  /\ KeywordOf(ret.p) \in STOP_WORDS
  /\ RowsOfSender(ret.p.From) # {}
  /\ smsLog.rows[Len(smsLog.rows) - 1].From = ret.p.From
  /\ smsLog.rows[Len(smsLog.rows)].From = SYSTEM

\* the bodies that may change the roster, as the keyword list reads
ROSTER_KEYWORDS ==
  {"STOP", "STOPALL", "UNSUBSCRIBE", "CANCEL", "END", "QUIT", "START"}

\* C26: a doPost changes the roster only when MessageStatus is empty and the
\* trimmed, upper-cased body is one of STOP, STOPALL, UNSUBSCRIBE, CANCEL,
\* END, QUIT or START.
C26_RosterFrame ==
  [][(ret'.op = "doPost" /\ roster' # roster) =>
       /\ ret'.p.MessageStatus = ""
       /\ ToUpperCase(Trim(ret'.p.Body)) \in ROSTER_KEYWORDS
    ]_vars

\* C26 witness: a status callback with the body STOP from a sender whose
\* roster row is opted in
C26_Witness ==
  /\ ret.op = "doPost"
  /\ ret.p.MessageStatus # ""
  /\ KeywordOf(ret.p) = "STOP"
  /\ \E i \in RowsOfSender(ret.p.From) : roster[i].OptIn = "Yes"

\* C27: every doPost returns an XML envelope whose Response holds no element
\* or one Message element; it holds the Message exactly when MessageStatus is
\* empty and the trimmed, upper-cased body is PING; a STOP or START from a
\* sender that matches no roster row leaves the roster as it was, returns the
\* empty envelope and adds one SYSTEM row after the inbound record.
C27_ReplyEnvelope ==
  [][ret'.op = "doPost" =>
       /\ ret'.reply.mime = "XML"
       /\ Len(ret'.reply.Response) <= 1
       /\ \A k \in 1..Len(ret'.reply.Response) :
            DOMAIN ret'.reply.Response[k] = {"Message"}
            /\ ret'.reply.Response[k].Message # ""
       /\ (ret'.reply # EmptyEnvelope)
            <=> (ret'.p.MessageStatus = "" /\ ToUpperCase(Trim(ret'.p.Body)) = "PING")
       /\ (ret'.p.MessageStatus = ""
             /\ ToUpperCase(Trim(ret'.p.Body)) \in ROSTER_KEYWORDS
             /\ RowsOfSender(ret'.p.From) = {}) =>
            /\ roster' = roster
            /\ ret'.reply = EmptyEnvelope
            /\ Len(smsLog'.rows) = Len(smsLog.rows) + 2
            /\ smsLog'.rows[Len(smsLog'.rows)].From = SYSTEM
    ]_vars

\* C27 witness: a START from a number that no row of a non-empty roster holds
\* was answered with the empty envelope after the non-match was logged
C27_Witness ==
  /\ ret.op = "doPost"
  /\ ret.p.MessageStatus = ""
  /\ KeywordOf(ret.p) = "START"
  /\ Len(roster) > 0
  /\ ret.p.From # <<>>
  /\ RowsOfSender(ret.p.From) = {}
  /\ ret.reply = EmptyEnvelope
  /\ smsLog.rows[Len(smsLog.rows)].Body = "STOP/START: no row matched"

-----------------------------------------------------------------------------
(* uiRenderPreview on the characters of the template.  A text is a sequence *)
(* of one-character strings; a protected placeholder is one element.        *)

HSpace == {" ", "\t", "\r"}            \* [^\S\n]
WhiteSpace == HSpace \cup {"\n"}       \* \s
Punctuation == {"!", "?", ".", ",", ";", ":"}
WordChars ==
  {"a", "c", "d", "e", "f", "i", "l", "m", "n", "o", "r", "s", "t", "N", "H", "D", "F"}

KeyChars(key) ==
  CASE key = "title"     -> <<"t", "i", "t", "l", "e">>
    [] key = "date"      -> <<"d", "a", "t", "e">>
    [] key = "location"  -> <<"l", "o", "c", "a", "t", "i", "o", "n">>
    [] key = "footer"    -> <<"f", "o", "o", "t", "e", "r">>
    [] key = "firstName" -> <<"f", "i", "r", "s", "t", "N", "a", "m", "e">>

KeyPattern(key) == <<"{">> \o KeyChars(key) \o <<"}">>

Protected(key) == "<<" \o key \o ">>"

StartsWith(s, pat) == Len(s) >= Len(pat) /\ SubSeq(s, 1, Len(pat)) = pat

Drop(s, n) == SubSeq(s, n + 1, Len(s))

\* String.prototype.trim on a text
RECURSIVE TrimStart(_)
TrimStart(s) ==
  IF s # <<>> /\ Head(s) \in WhiteSpace THEN TrimStart(Tail(s)) ELSE s

RECURSIVE TrimEnd(_)
TrimEnd(s) ==
  IF s # <<>> /\ s[Len(s)] \in WhiteSpace THEN TrimEnd(SubSeq(s, 1, Len(s) - 1)) ELSE s

TrimText(s) == TrimEnd(TrimStart(s))

\* replace(/\r\n/g, '\n')
RECURSIVE NormalizeBreaks(_)
NormalizeBreaks(s) ==
  IF s = <<>> THEN <<>>
  ELSE IF StartsWith(s, <<"\r", "\n">>) THEN <<"\n">> \o NormalizeBreaks(Drop(s, 2))
  ELSE <<Head(s)>> \o NormalizeBreaks(Tail(s))

\* step 1: {title}, {date}, {location} and {footer} become protected tokens
RECURSIVE Protect(_)
Protect(s) ==
  IF s = <<>> THEN <<>>
  ELSE IF \E key \in CtxKeys : StartsWith(s, KeyPattern(key))
  THEN LET key == CHOOSE k \in CtxKeys : StartsWith(s, KeyPattern(k))
       IN <<Protected(key)>> \o Protect(Drop(s, Len(KeyPattern(key))))
  ELSE <<Head(s)>> \o Protect(Tail(s))

\* (\w+): the longest run of word characters at the start of s
RECURSIVE WordRun(_)
WordRun(s) ==
  IF s # <<>> /\ Head(s) \in WordChars THEN <<Head(s)>> \o WordRun(Tail(s)) ELSE <<>>

\* ([^}]*): the elements before the first "}"
RECURSIVE BeforeClose(_)
BeforeClose(s) ==
  IF s = <<>> \/ Head(s) = "}" THEN <<>> ELSE <<Head(s)>> \o BeforeClose(Tail(s))

\* the match of /\{(\w+)\?\s*([^}]*)\}/ at the start of s: the key, the
\* segment, and the number of elements matched (0: no match here)
OptionalAt(s) ==
  LET word == WordRun(Tail(s))
      afterWord == Drop(s, 1 + Len(word))
      afterSpace == TrimStart(Tail(afterWord))
      seg == BeforeClose(afterSpace)
      closed == Len(seg) < Len(afterSpace)
  IN IF Head(s) = "{" /\ word # <<>> /\ afterWord # <<>> /\ Head(afterWord) = "?" /\ closed
     THEN [key |-> word, seg |-> seg,
           len |-> Len(s) - Len(afterSpace) + Len(seg) + 1]
     ELSE [key |-> <<>>, seg |-> <<>>, len |-> 0]

\* ctx[key] for the key as written in the template ('' for an unknown key)
CtxValue(ctx, word) ==
  IF \E key \in CtxKeys : KeyChars(key) = word
  THEN ctx[CHOOSE key \in CtxKeys : KeyChars(key) = word]
  ELSE <<>>

\* step 2: every optional segment gives its segment or nothing
RECURSIVE ExpandOptional(_, _)
ExpandOptional(s, ctx) ==
  IF s = <<>> THEN <<>>
  ELSE IF OptionalAt(s).len > 0
  THEN (IF TrimText(CtxValue(ctx, OptionalAt(s).key)) # <<>>
        THEN OptionalAt(s).seg ELSE <<>>)
       \o ExpandOptional(Drop(s, OptionalAt(s).len), ctx)
  ELSE <<Head(s)>> \o ExpandOptional(Tail(s), ctx)

\* step 3: the protected tokens take the context values
RECURSIVE Restore(_, _)
Restore(s, ctx) ==
  IF s = <<>> THEN <<>>
  ELSE (IF \E key \in CtxKeys : Head(s) = Protected(key)
        THEN ctx[CHOOSE key \in CtxKeys : Head(s) = Protected(key)]
        ELSE <<Head(s)>>)
       \o Restore(Tail(s), ctx)

\* step 4a: replace(/[^\S\n]+/g, ' ')
RECURSIVE CollapseSpaces(_)
CollapseSpaces(s) ==
  IF s = <<>> THEN <<>>
  ELSE IF Head(s) \in HSpace
  THEN IF Len(s) > 1 /\ s[2] \in HSpace
       THEN CollapseSpaces(Tail(s))
       ELSE <<" ">> \o CollapseSpaces(Tail(s))
  ELSE <<Head(s)>> \o CollapseSpaces(Tail(s))

\* the run of spaces and tabs at the start of s
RECURSIVE BlankRun(_)
BlankRun(s) ==
  IF s # <<>> /\ Head(s) \in {" ", "\t"} THEN <<Head(s)>> \o BlankRun(Tail(s)) ELSE <<>>

\* step 4b: replace(/[ \t]+([!?.,;:])/g, '$1')
RECURSIVE TightenPunctuation(_)
TightenPunctuation(s) ==
  IF s = <<>> THEN <<>>
  ELSE IF BlankRun(s) # <<>>
  THEN (IF Len(BlankRun(s)) < Len(s) /\ s[Len(BlankRun(s)) + 1] \in Punctuation
        THEN <<>> ELSE BlankRun(s))
       \o TightenPunctuation(Drop(s, Len(BlankRun(s))))
  ELSE <<Head(s)>> \o TightenPunctuation(Tail(s))

\* the elements before the first line break
RECURSIVE FirstLine(_)
FirstLine(s) ==
  IF s = <<>> \/ Head(s) = "\n" THEN <<>> ELSE <<Head(s)>> \o FirstLine(Tail(s))

RECURSIVE TrimBlanksEnd(_)
TrimBlanksEnd(s) ==
  IF s # <<>> /\ s[Len(s)] \in {" ", "\t"}
  THEN TrimBlanksEnd(SubSeq(s, 1, Len(s) - 1)) ELSE s

\* step 4c: split('\n'), trim the spaces and tabs of each line, join('\n')
RECURSIVE TrimLines(_)
TrimLines(s) ==
  LET line == FirstLine(s)
      trimmed == TrimBlanksEnd(Drop(line, Len(BlankRun(line))))
  IN IF Len(line) = Len(s) THEN trimmed
     ELSE trimmed \o <<"\n">> \o TrimLines(Drop(s, Len(line) + 1))

\* step 4 with the closing trim()
Cleanup(s) == TrimText(TrimLines(TightenPunctuation(CollapseSpaces(s))))

\* uiRenderPreview(body, eventId) for the text `body` and the context built
\* from the event
RenderText(body, ctx) ==
  Cleanup(Restore(ExpandOptional(Protect(TrimText(NormalizeBreaks(body))), ctx), ctx))

\* the tokens of a template whose text is given by characters: literal
\* text, a placeholder {key}, an optional segment {key? ...}
TextTok(chars) == [t |-> "lit", s |-> "", chars |-> chars, seg |-> <<>>]
KeyTok(key) == [t |-> "ph", s |-> key, chars |-> <<>>, seg |-> <<>>]
OptTok(key, seg) == [t |-> "opt", s |-> key, chars |-> <<>>, seg |-> seg]

\* the characters of a template given as tokens
RECURSIVE TemplateText(_)
TemplateText(tokens) ==
  IF tokens = <<>> THEN <<>>
  ELSE LET tok == Head(tokens)
       IN (IF tok.t = "lit" THEN tok.chars
           ELSE IF tok.t = "ph" THEN KeyPattern(tok.s)
           ELSE <<"{">> \o KeyChars(tok.s) \o <<"?">> \o TemplateText(tok.seg) \o <<"}">>)
          \o TemplateText(Tail(tokens))

\* the event values of the check and the context uiRenderPreview builds
SmsFooterText == <<" ", "S", "T", "O", "P">>   \* smsFooter_(), shortened

PreviewContext(title, date) ==
  [title |-> TrimText(title), date |-> TrimText(date), location |-> <<>>,
   footer |-> SmsFooterText]

PreviewPieces ==
  { TextTok(<<"H", "i">>), TextTok(<<" ">>), TextTok(<<"\n">>), TextTok(<<".">>),
    KeyTok("title"), KeyTok("footer"),
    OptTok("date", <<TextTok(<<" ", "o", "n", " ">>), KeyTok("date")>>),
    OptTok("title", <<KeyTok("title")>>),
    OptTok("firstName", <<TextTok(<<",", " ">>)>>) }

\* templates of up to three pieces
PreviewTemplates ==
  {<<>>} \cup {<<a>> : a \in PreviewPieces}
         \cup {<<a, b>> : a \in PreviewPieces, b \in PreviewPieces}
         \cup {<<a, b, c>> : a \in PreviewPieces, b \in PreviewPieces, c \in PreviewPieces}

\* the composer holds a template and the event's title and date; the preview
\* call renders them
InitPreview ==
  /\ responses = <<>>
  /\ smsLog = [header |-> "none", rows |-> <<>>]
  /\ headerRow = FullHeader
  /\ userProps = [SMS_AUTH_HASH |-> "", SMS_AUTH_TIME |-> 0]
  /\ now = 0
  /\ sync = SyncIdle
  /\ http = <<>>
  /\ stopped = {}
  /\ attendance = <<>>
  /\ roster = <<>>
  /\ props = BaseProps
  /\ config = [SHEET_NAME |-> ""]
  /\ \E tokens \in PreviewTemplates,
        title \in {<<>>, <<"D", "e", "m", "o">>},
        date \in {<<>>, <<" ">>, <<"F", "r", "i">>} :
       ret = [op |-> "compose", tokens |-> tokens, ctx |-> PreviewContext(title, date)]

RenderCall ==
  /\ ret.op \in {"compose", "uiRenderPreview"}
  /\ ret' = [op |-> "uiRenderPreview", tokens |-> ret.tokens, ctx |-> ret.ctx,
             out |-> RenderText(TemplateText(ret.tokens), ret.ctx)]
  /\ UNCHANGED <<roster, responses, attendance, smsLog, props, config, headerRow, userProps, now,
                 sync, http, stopped>>

NextPreview == RenderCall

SpecPreview == InitPreview /\ [][NextPreview]_vars

\* the template after placeholder and segment expansion, as the templates
\* are meant: a placeholder of the context gives its value, an optional
\* segment its inner text when the field is non-empty after trimming
RECURSIVE Expanded(_, _)
Expanded(tokens, ctx) ==
  IF tokens = <<>> THEN <<>>
  ELSE LET tok == Head(tokens)
       IN (IF tok.t = "lit" THEN tok.chars
           ELSE IF tok.t = "ph"
           THEN (IF tok.s \in CtxKeys THEN ctx[tok.s] ELSE KeyPattern(tok.s))
           ELSE IF tok.s \in CtxKeys /\ TrimText(ctx[tok.s]) # <<>>
           THEN Expanded(tok.seg, ctx)
           ELSE <<>>)
          \o Expanded(Tail(tokens), ctx)

LineBreaks(s) == Cardinality({i \in 1..Len(s) : s[i] = "\n"})

\* C28: the text uiRenderPreview returns is the template with every context
\* placeholder replaced by its value and every optional segment replaced by
\* its inner text (field non-empty after trimming) or by nothing, after the
\* whitespace cleanup; "{title} {date? on {date}}" with title "Demo" and no
\* date gives "Demo".
C28_SegmentsExpandExactly ==
  ret.op = "uiRenderPreview" =>
    ret.out = Cleanup(Expanded(ret.tokens, ret.ctx))

\* C29: the text uiRenderPreview returns has as many line breaks as the
\* template after placeholder and segment expansion.
C29_LineBreaksKept ==
  ret.op = "uiRenderPreview" =>
    LineBreaks(ret.out) = LineBreaks(Expanded(ret.tokens, ret.ctx))

-----------------------------------------------------------------------------
(* toE164_ as a function of the phone cell *)

\* ten digits with each first digit, and two different endings
TenDigits ==
  { <<d>> \o rest :
      d \in Digits,
      rest \in { <<"1", "6", "5", "5", "5", "0", "1", "0", "1">>,
                 <<"0", "4", "5", "5", "5", "0", "1", "0", "2">> } }

\* the ways a number is written in the phone cell
Written10(d) ==
  { d,
    <<"(">> \o SubSeq(d, 1, 3) \o <<")", " ">> \o SubSeq(d, 4, 6) \o <<"-">> \o SubSeq(d, 7, 10),
    SubSeq(d, 1, 3) \o <<".">> \o SubSeq(d, 4, 6) \o <<".">> \o SubSeq(d, 7, 10) \o <<" ">> }

\* cells with ten digits, and cells with nine, eleven, twelve and no digits
PhoneCells ==
  UNION { Written10(d) : d \in TenDigits }
    \cup { SubSeq(d, 1, 9) : d \in TenDigits }
    \cup { <<"+", "1">> \o d : d \in TenDigits }
    \cup { <<"4", "4">> \o SubSeq(d, 1, 9) : d \in TenDigits }
    \cup { <<"1", " ">> \o w : w \in UNION { Written10(d) : d \in TenDigits } }
    \cup { <<"1">> \o d \o <<"9">> : d \in TenDigits }
    \cup { <<>>, <<"n", "/", "a">> }

InitDial ==
  /\ Quiet
  /\ attendance = <<>>
  /\ \E cell \in PhoneCells : roster = <<[RowA("Yes") EXCEPT !.Phone = cell]>>
  /\ props = BaseProps
  /\ config = [SHEET_NAME |-> ""]

DialCall ==
  /\ ret' = [op |-> "toE164_", digits |-> roster[1].Phone,
             out |-> toE164_(roster[1].Phone),
             bare |-> normalizePhoneDigits_(roster[1].Phone),
             cell |-> normalizeFieldValue_("Phone", roster[1].Phone)]
  /\ UNCHANGED <<roster, responses, attendance, smsLog, props, config, headerRow, userProps, now,
                 sync, http, stopped>>

NextDial == DialCall

SpecDial == InitDial /\ [][NextDial]_vars

\* C30: for an input that holds exactly ten digits, toE164_ returns "+1"
\* followed by these ten digits, whatever the first of them is.
C30_TenDigitsGetPlusOne ==
  (ret.op = "toE164_" /\ Len(StripNonDigits(ret.digits)) = 10) =>
    ret.out = <<"+", "1">> \o StripNonDigits(ret.digits)

\* C30 witness: a cell written with punctuation whose ten digits start with 1
C30_Witness ==
  /\ ret.op = "toE164_"
  /\ Len(StripNonDigits(ret.digits)) = 10
  /\ Head(StripNonDigits(ret.digits)) = "1"
  /\ Len(ret.digits) > 10
  /\ Len(ret.out) = 12

\* C31: for an input that holds eleven digits of which the first is 1,
\* normalizePhoneDigits_ and normalizeFieldValue_ for 'Phone #' both return the
\* ten digits that follow this 1.
C31_LeadingOneDropped ==
  (/\ ret.op = "toE164_"
   /\ Len(StripNonDigits(ret.digits)) = 11
   /\ Head(StripNonDigits(ret.digits)) = "1") =>
    /\ ret.bare = Tail(StripNonDigits(ret.digits))
    /\ ret.cell = Tail(StripNonDigits(ret.digits))

\* C31 witness: "1 (816) 555-0101" style input reduced to its last ten digits,
\* of which the first is again a 1
C31_Witness ==
  /\ ret.op = "toE164_"
  /\ Len(StripNonDigits(ret.digits)) = 11
  /\ Len(ret.digits) > 11
  /\ SubSeq(StripNonDigits(ret.digits), 1, 2) = <<"1", "1">>
  /\ Len(ret.bare) = 10
  /\ Head(ret.bare) = "1"
  /\ ret.cell = ret.bare

\* C32: for an input whose digits number neither ten nor eleven, both
\* normalizers pass the digits through: normalizePhoneDigits_ returns exactly
\* the digits and toE164_ returns "+" followed by exactly the digits.
C32_OtherLengthsPassThrough ==
  (ret.op = "toE164_" /\ Len(StripNonDigits(ret.digits)) \notin {10, 11}) =>
    /\ ret.bare = StripNonDigits(ret.digits)
    /\ ret.out = <<"+">> \o StripNonDigits(ret.digits)

\* C33: every request sent to the vendor carries its destination in the
\* dialing form, the form toE164_ returns and leaves as it is; no send path
\* passes the bare form of the roster.
C33_RequestsInDialingForm ==
  \A k \in 1..Len(http) : http[k].To = toE164_(http[k].To)

\* C34: a batch of sendBulkSMS never writes the phone, name, email or join
\* date cell of a row and adds or removes no row; it changes SMS Opt-In of a
\* row only when the request for that row was rejected with 21610; and it
\* leaves a row without a phone, or without an affirmative opt-in, as it was.
C34_BatchFrame ==
  [][ret'.op = "sendBulkSMS" =>
       /\ Len(roster') = Len(roster)
       /\ \A i \in 1..Len(roster) :
            /\ roster'[i].Phone = roster[i].Phone
            /\ roster'[i].StudentName = roster[i].StudentName
            /\ roster'[i].Email = roster[i].Email
            /\ roster'[i].CampusEmail = roster[i].CampusEmail
            /\ roster'[i].JoinDate = roster[i].JoinDate
            /\ roster'[i].OptIn # roster[i].OptIn =>
                 \E k \in 1..Len(http') :
                   http'[k].row = i /\ http'[k].outcome = "r21610"
            /\ ~Eligible(roster[i]) => roster'[i] = roster[i]]_vars

\* C34 witness: a pass that skipped a row without a phone, then met a failure
\* other than 21610 on a row that keeps its opt-in as it was written, and a
\* 21610 rejection on the row after it
C34_Witness ==
  /\ ret.op = "sendBulkSMS"
  /\ Len(roster) = 4
  /\ roster[2] = RowD("Yes")
  /\ roster[3].SendStatus = "FAILED" /\ roster[3].OptIn = "YES"
  /\ roster[4].SendStatus = "OPTED_OUT" /\ roster[4].OptIn = "NO"
  /\ Len(http) = 2
  /\ http[2].outcome = "r21610"

-----------------------------------------------------------------------------
(* sendBulkSMS on rosters that lack tracking columns *)

\* header rows of the roster sheet: no tracking column, some, one written in
\* another case with a blank after it, one before the other columns, all of
\* them, and a sheet whose phone column has another name
ColumnHeaders ==
  { BaseHeader,
    BaseHeader \o <<"Last Sent At", "Last Error">>,
    BaseHeader \o <<"Message", "Send Status ">>,
    <<"Send Status">> \o BaseHeader,
    FullHeader,
    <<"Join Date", "Student Name", "Email", "Campus Email", "Phone", "SMS Opt-In">> }

InitColumns ==
  /\ roster \in {<<RowA("Yes")>>, <<RowA("Yes"), RowD("Yes"), RowC("YES")>>}
  /\ responses = <<>>
  /\ attendance = <<>>
  /\ smsLog = [header |-> "none", rows |-> <<>>]
  /\ props = BaseProps
  /\ config \in InitConfigs
  /\ headerRow \in ColumnHeaders
  /\ userProps = [SMS_AUTH_HASH |-> "", SMS_AUTH_TIME |-> 0]
  /\ now = 0
  /\ sync = SyncIdle
  /\ http = <<>>
  /\ ret = [op |-> "init"]
  /\ stopped = {}

SpecColumns == InitColumns /\ [][NextPass]_vars

\* the header is that of a mapped column
NamesColumn(h, name) == Trim(ToLowerCase(h)) = ToLowerCase(name)

\* the tracking headers no column of the header row carries
LacksColumn(name) == \A i \in 1..Len(headerRow) : ~NamesColumn(headerRow[i], name)
MissingTracking == SelectSeq(TrackingHeader, LacksColumn)

\* C35: when the roster has the phone and the opt-in column and lacks a
\* tracking column, sendBulkSMS does not stop in validateColumns: the missing
\* tracking headers are written after the last column, in the order of
\* trackingCols, the columns there were stay where they were, the column map
\* points at the header of each tracking column, and every row the run sent
\* to carries its outcome.
C35_TrackingColumnsAdded ==
  [][(/\ ret'.op = "sendBulkSMS"
      /\ getTwilioCredentials.isValid
      /\ \E i \in 1..Len(headerRow) : NamesColumn(headerRow[i], "Phone #")
      /\ \E i \in 1..Len(headerRow) : NamesColumn(headerRow[i], "SMS Opt-In")
      /\ MissingTracking # <<>>) =>
       /\ ret'.err \in {"", "Exception"}
       /\ headerRow' = headerRow \o MissingTracking
       /\ \A n \in 1..Len(trackingCols) :
            /\ ValidatedMap[trackingCols[n]] \in 1..Len(headerRow')
            /\ NamesColumn(headerRow'[ValidatedMap[trackingCols[n]]], TrackingHeader[n])
       /\ \A k \in 1..Len(http') :
            /\ roster'[http'[k].row].SendStatus \in {"SENT", "FAILED", "OPTED_OUT"}
            /\ roster'[http'[k].row].LastSentAt = <<now>>]_vars

-----------------------------------------------------------------------------
(* resendFailures_ and the send log *)

\* a log row of a send that failed: written by logSms_ for a request the
\* vendor rejected (a code outside 2xx) or that raised (code 0 and the error
\* text); a dry-run row carries the SID "DRYRUN" and no error
RecordsFailedSend(row) ==
  /\ row.kind = "OUT"
  /\ row.SID # "DRYRUN"
  /\ ~(row.Code >= 200 /\ row.Code < 300)

Retryable(row) == RecordsFailedSend(row) /\ row.To # <<>> /\ row.Body # <<>>

\* the destinations of the rows of a log that resendFailures_ is to retry
RECURSIVE RetryList(_)
RetryList(rows) ==
  IF rows = <<>> THEN <<>>
  ELSE (IF Retryable(Head(rows)) THEN <<Head(rows).To>> ELSE <<>>) \o RetryList(Tail(rows))

\* C36: a resendFailures_ that ran its loop to the end attempted exactly the
\* log entries of failed sends that have a destination and a body, rejected
\* by the vendor or failed in transport, each once and in the order of the
\* log, and no entry of a successful or a dry-run send.
C36_RetriesEveryFailure ==
  [][(ret'.op = "resendFailures_" /\ ret'.err = "") =>
       ret'.audience = RetryList(smsLog.rows)]_vars

-----------------------------------------------------------------------------
(* the composer's message for one recipient *)

\* a template with its segments keyed on firstName resolved for a recipient:
\* the inner text for a non-empty first name, nothing otherwise
RECURSIVE ForRecipient(_, _)
ForRecipient(tokens, firstName) ==
  IF tokens = <<>> THEN <<>>
  ELSE (IF Head(tokens).t = "opt" /\ Head(tokens).s = "firstName"
        THEN (IF firstName # "" THEN Head(tokens).seg ELSE <<>>)
        ELSE <<Head(tokens)>>)
       \o ForRecipient(Tail(tokens), firstName)

\* the text the reminder template stands for, for a recipient of event E1
PersonalText(firstName) ==
  FillFirstName(uiRenderPreview(ForRecipient(ReminderTemplate, firstName), "E1"),
                firstName)

\* C37: each request of a uiSend with the reminder template carries, for its
\* recipient, the template with the {firstName? ...} segment replaced by its
\* inner text when the recipient's first name is non-empty and by nothing
\* when it is empty, and with {firstName} filled with that name.
C37_FirstNameSegment ==
  (ret.op = "uiSend" /\ ret.err = "") =>
    \A k \in 1..Len(http) :
      http[k].Body = PersonalText(resolveAudience_("E1", ret.args)[k].firstName)

-----------------------------------------------------------------------------
(* sync passes ended by the host and run again *)

\* response sheets with one unprocessed submission, alone or after a row a
\* person marked as processed by hand
RerunResponses ==
  { <<row>> : row \in FormRows }
    \cup { <<[FormRow("9/8/2025", "Bo", "b@x.edu", "", PA, "Yes, text me", "E1")
               EXCEPT !.Processed = "Yes"], row>> : row \in FormRows }

InitRerun ==
  /\ roster \in InitRosters
  /\ responses \in RerunResponses
  /\ attendance = <<>>
  /\ smsLog = [header |-> "none", rows |-> <<>>]
  /\ props = BaseProps
  /\ config = [SHEET_NAME |-> ""]
  /\ headerRow = FullHeader
  /\ userProps = [SMS_AUTH_HASH |-> "", SMS_AUTH_TIME |-> 0]
  /\ now = 0
  /\ sync = SyncIdle
  /\ http = <<>>
  /\ ret = [op |-> "init"]
  /\ stopped = {}

NextRerun ==
  \/ SyncStart
  \/ \E o \in Outcomes : SyncRow(o)
  \/ \E o \in Outcomes, stage \in CutStages : SyncRowCutOff(o, stage)

SpecRerun == InitRerun /\ [][NextRerun]_vars

\* the key a submission is looked up under
SubmissionIndexKey(row) ==
  makeIndexKey_(inferMatchKey_(BuildIncoming(row)),
                firstNonEmpty_(BuildIncoming(row).CampusEmail, BuildIncoming(row).Email,
                               BuildIncoming(row).Phone))

\* the roster write of a submission is applied: the row filed under the
\* submission's key carries every value the submission brings (the join date
\* aside, which is written on insert only)
WriteApplied(row) ==
  /\ inferMatchKey_(BuildIncoming(row)) # ""
  /\ buildIndex_(roster, SubmissionIndexKey(row)) > 0
  /\ \A k \in DOMAIN BuildIncoming(row) \ {"JoinDate"} :
       ~IsBlank(k, BuildIncoming(row)[k]) =>
         roster[buildIndex_(roster, SubmissionIndexKey(row))][k] = BuildIncoming(row)[k]

\* the attendance fact a submission stands for, and whether it is recorded
FactOf(row) ==
  [EventID |-> Trim(row.EventID),
   CampusEmail |-> Trim(ToLowerCase(roster[buildIndex_(roster, SubmissionIndexKey(row))].CampusEmail))]
FactDue(row) ==
  /\ FactOf(row).EventID # "" /\ FactOf(row).CampusEmail # ""
  /\ ~\E i \in 1..Len(attendance) :
        /\ Trim(attendance[i].EventID) = FactOf(row).EventID
        /\ ToLowerCase(Trim(attendance[i].CampusEmail)) = FactOf(row).CampusEmail

\* C38: a sync turn over an unprocessed submission whose roster write is
\* already applied (an earlier pass ended between the write and the flag)
\* leaves the roster as it is, which is the roster of processing the
\* submission once, sends no welcome message, records the attendance fact
\* unless it is recorded already, and sets the flag; a turn over a submission
\* whose Processed flag reads yes changes nothing at all.
C38_RerunSameAsOnce ==
  [][(ret'.op = "syncRow") =>
       /\ (ToLowerCase(responses[sync.r].Processed) # "yes" /\ WriteApplied(responses[sync.r])) =>
            /\ roster' = roster
            /\ http' = <<>>
            /\ smsLog' = smsLog
            /\ attendance' = IF FactDue(responses[sync.r])
                             THEN Append(attendance, FactOf(responses[sync.r]))
                             ELSE attendance
            /\ responses' = [responses EXCEPT ![sync.r].Processed = "YES"]
       /\ ToLowerCase(responses[sync.r].Processed) = "yes" =>
            /\ ret'.kind = "skip"
            /\ UNCHANGED <<roster, attendance, smsLog, responses>>
            /\ http' = <<>>]_vars

\* C38 witness: on an empty roster a pass was ended after the insert and the
\* welcome message; the next pass found the row, sent nothing more and set
\* the flag: one roster row, one welcome in the log
C38_Witness ==
  /\ ret.op = "syncRow"
  /\ ret.kind = "update"
  /\ ret.before = roster
  /\ Len(roster) = 1
  /\ roster[1].OptIn = "Yes"
  /\ roster[1].JoinDate = "9/9/2025"
  /\ Len(smsLog.rows) = 1
  /\ Len(attendance) = 1
  /\ Len(responses) = 1
  /\ responses[1].Processed = "YES"

\* C39: when a resendFailures_ has retried failed log entries and every
\* retry was accepted by the vendor, the invocation of resendFailures_ that
\* follows it sends none of these messages again: it issues no request.
C39_NoRetryAfterSuccess ==
  [][(/\ ret.op = "resendFailures_" /\ ret.err = ""
      /\ http # <<>>
      /\ \A k \in 1..Len(http) : http[k].outcome = "ok"
      /\ ret'.op = "resendFailures_") =>
       http' = <<>>]_vars


-----------------------------------------------------------------------------
(* inbound webhook calls handled while a sync pass is running *)

CheckIn == FormRow("9/9/2025", "", "A@X.EDU", "", <<>>, "", "E1")
OptInForm == FormRow("9/9/2025", "Ann Lee", "a@x.edu", "", PA, "Yes, text me", "E1")

\* response sheets of a pass: one submission, or a check-in and a sign-up of
\* the same person in either order
RaceResponses ==
  { <<row>> : row \in FormRows } \cup { <<CheckIn, OptInForm>>, <<OptInForm, CheckIn>> }

InitRace ==
  /\ roster \in { <<RowA("Yes")>>, <<RowA("Yes"), RowB("Yes")>> }
  /\ responses \in RaceResponses
  /\ attendance = <<>>
  /\ smsLog = [header |-> "none", rows |-> <<>>]
  /\ props = BaseProps
  /\ config = [SHEET_NAME |-> ""]
  /\ headerRow = FullHeader
  /\ userProps = [SMS_AUTH_HASH |-> "", SMS_AUTH_TIME |-> 0]
  /\ now = 0
  /\ sync = SyncIdle
  /\ http = <<>>
  /\ ret = [op |-> "init"]
  /\ stopped = {}

\* the web app execution of doPost runs beside the triggered execution of
\* syncStudentDatabase: nothing in either script takes a lock
doPostDuringSync(p) ==
  /\ sync.pc = "run"
  /\ doPost(p)

NextRace ==
  \/ SyncStart
  \/ \E o \in Outcomes : SyncRow(o)
  \/ \E p \in Payloads : doPostDuringSync(p)

SpecRace == InitRace /\ [][NextRace]_vars

\* a handled submission opted the person of roster row i in
OptedInBySubmission(i) ==
  \E j \in 1..Len(responses) :
    /\ ToLowerCase(responses[j].Processed) = "yes"
    /\ BuildIncoming(responses[j]).OptIn = "Yes"
    /\ \/ /\ BuildIncoming(responses[j]).CampusEmail # ""
          /\ BuildIncoming(responses[j]).CampusEmail = ToLowerCase(roster[i].CampusEmail)
       \/ /\ BuildIncoming(responses[j]).Phone # <<>>
          /\ BuildIncoming(responses[j]).Phone = normalizePhoneDigits_(roster[i].Phone)

\* C40: a STOP handled while a sync pass is running is not lost: once the
\* pass is over, every roster row with the sender's phone has opt-in "No",
\* unless a submission of the pass opted that person in
C40_StopNotLost ==
  sync.pc = "idle" =>
    \A phone \in stopped : \A i \in 1..Len(roster) :
      normalizePhoneDigits_(roster[i].Phone) = phone =>
        roster[i].OptIn = "No" \/ OptedInBySubmission(i)
====
